---- MODULE Spec2Model ----
(***************************************************************************)
(* HeatMapHero: the heat map engine (src/core/heatmap_generator.py), its   *)
(* GUI caller (src/gui/main_window.py) and the earlier single-file         *)
(* application (src/hmh.py).                                               *)
(*                                                                         *)
(* Numbers.  Coordinates are fixed-point integers: one tick is a quarter   *)
(* of 10^-6, so round(x, 6) is a rounding to a multiple of TicksPerMicro   *)
(* and one coordinate unit is Unit ticks.  Sample values are rationals     *)
(* [n, d] in lowest terms (the averaging of duplicates halves them).       *)
(***************************************************************************)
EXTENDS Integers, Sequences, FiniteSets, TLC

VARIABLES
    \* ---- one heat map request, from the button to the drawn scene
    pc,             \* "idle", "chain" (inside _interpolate_with_fallback), "render", "done"
    app,            \* "core": gui/main_window.py with core/; "legacy": hmh.py
    wifi_data,      \* the loaded data points, each with its value of every metric
    selected_type,  \* heatmap_type_var
    args,           \* the arrays left by the metric filter
    x_coords, y_coords, values,   \* the arrays given to the interpolation
    bounds,         \* <<x_min, x_max, y_min, y_max>>
    grid_x, grid_y, \* the lattice
    method_idx,     \* position of the for loop in INTERPOLATION_METHODS
    trace,          \* what the loop did with each method so far
    grid_values,    \* the grid returned by the chain
    scene,          \* what was drawn
    \* ---- the duplicate removal, applied as a function
    d_pc, d_x, d_y, d_v, d_out, d_prev,
    \* ---- the inverse-distance fallback, applied as a function
    i_pc, i_x, i_y, i_v, i_gx, i_gy, i_out,
    \* ---- get_heatmap_data, applied as a function
    m_pc, m_type, m_data, m_out,
    \* ---- one HeatMapGenerator object serving call after call
    g_pc,           \* "new" (constructed), "used" (has served a call)
    g_self,         \* the attributes of the object
    g_ax,           \* the axes the calls draw on
    g_call,         \* the last call: its arguments and what griddata answered in it
    g_trace,        \* what the chain did in the last call
    g_ref,          \* the first call served, and what it left on the axes
    g_mixed,        \* a call other than the first one has been served since
    \* ---- the DataProcessor over folders of JSON files, and the analyzer run once
    p_pc,           \* "ready" once the DataProcessor is constructed
    p_disk,         \* the *.json files of each folder, in the order glob lists them
    p_wifi_data,    \* DataProcessor.wifi_data
    p_json_folder,  \* DataProcessor.json_folder
    p_read,         \* the files that the most recent load_json_data read
    p_op,           \* the most recent operation
    p_runs,         \* the analyzer runs so far
    \* ---- the window's click analysis: the Tk thread and the analysis threads
    u_pc,               \* "run" once the window is up
    click_enabled,      \* HeatMapHero.click_enabled
    analysis_running,   \* HeatMapHero.analysis_running
    u_folder,           \* data_processor.json_folder is set
    u_spawning,         \* on_canvas_click calls past the guard and before thread.start()
    u_threads,          \* the run_wifi_analysis threads, in the order they were started
    \* ---- WiFiAnalyzer.continuous_monitor
    c_pc,           \* "analyze", "test" (of the duration), "sleep", "end"
    c_duration,     \* the duration argument: given or not (None), and its seconds
    c_interval,     \* the interval argument, in seconds
    c_elapsed,      \* time.time() - start_time, in seconds
    c_results,      \* self.results: the iteration of each record
    c_saved         \* the records in the file written by the last save_results

dedupVars == <<d_pc, d_x, d_y, d_v, d_out, d_prev>>
idwVars == <<i_pc, i_x, i_y, i_v, i_gx, i_gy, i_out>>
flowVars == <<pc, app, wifi_data, selected_type, args, x_coords, y_coords, values,
              bounds, grid_x, grid_y, method_idx, trace, grid_values, scene>>
metricVars == <<m_pc, m_type, m_data, m_out>>
genVars == <<g_pc, g_self, g_ax, g_call, g_trace, g_ref, g_mixed>>
loadVars == <<p_pc, p_disk, p_wifi_data, p_json_folder, p_read, p_op, p_runs>>
guiVars == <<u_pc, click_enabled, analysis_running, u_folder, u_spawning, u_threads>>
monitorVars == <<c_pc, c_duration, c_interval, c_elapsed, c_results, c_saved>>
vars == <<flowVars, dedupVars, idwVars, metricVars, genVars, loadVars, guiVars,
          monitorVars>>

\* what the actions of one group leave alone: the variables of the others
outsideFlow == <<dedupVars, idwVars, metricVars, genVars, loadVars, guiVars, monitorVars>>
outsideDedup == <<flowVars, idwVars, metricVars, genVars, loadVars, guiVars, monitorVars>>
outsideIdw == <<flowVars, dedupVars, metricVars, genVars, loadVars, guiVars, monitorVars>>
outsideMetric == <<flowVars, dedupVars, idwVars, genVars, loadVars, guiVars, monitorVars>>
outsideGen == <<flowVars, dedupVars, idwVars, metricVars, loadVars, guiVars, monitorVars>>
outsideLoad == <<flowVars, dedupVars, idwVars, metricVars, genVars, guiVars, monitorVars>>
outsideGui == <<flowVars, dedupVars, idwVars, metricVars, genVars, loadVars, monitorVars>>
outsideMonitor == <<flowVars, dedupVars, idwVars, metricVars, genVars, loadVars, guiVars>>

(***************************************************************************)
(* Bounds of the model.                                                    *)
(***************************************************************************)
\* longest sample sequence given to the duplicate removal
MaxDedupLen == 4
\* most data points loaded when a heat map is requested
MaxPoints == 4
\* lattice positions a side, for Config.INTERPOLATION_GRID_SIZE (100)
GridSize == 2
\* longest sample sequence given to the inverse-distance fallback
MaxIdwLen == 3
\* most runs of the analyzer into the selected folder
MaxRuns == 1
\* most canvas clicks that pass the guard of on_canvas_click
MaxClicks == 2
\* the seconds of monitoring that are followed
MaxElapsed == 6
\* 1 / epsilon^2 in coordinate units: the model's distance floor is 1/2 where
\* the code's is 1e-10
EpsInvSq == 4

(***************************************************************************)
(* Fixed-point coordinates and rational values.                            *)
(***************************************************************************)
\* ticks per 10^-6: the sixth decimal is worth 4 ticks
TicksPerMicro == 4
\* ticks per coordinate unit (1.0)
Unit == 4000000

Abs(a) == IF a < 0 THEN -a ELSE a

RECURSIVE Gcd(_, _)
Gcd(a, b) == IF b = 0 THEN Abs(a) ELSE Gcd(b, a % b)

\* the rational n/d (d # 0) in lowest terms with a positive denominator
Rat(n, d) ==
    LET g == Gcd(n, d)
        s == IF d < 0 THEN -1 ELSE 1
    IN  [n |-> s * (n \div g), d |-> s * (d \div g)]

RatOfInt(i) == [n |-> i, d |-> 1]
RatAdd(a, b) == Rat(a.n * b.d + b.n * a.d, a.d * b.d)
RatHalf(a) == Rat(a.n, 2 * a.d)
RatSub(a, b) == Rat(a.n * b.d - b.n * a.d, a.d * b.d)
RatMul(a, b) == Rat(a.n * b.n, a.d * b.d)
\* a / b for b # 0
RatDiv(a, b) == Rat(a.n * b.d, a.d * b.n)
RatMax(a, b) == IF a.n * b.d >= b.n * a.d THEN a ELSE b
RatLe(a, b) == a.n * b.d <= b.n * a.d
RatLt(a, b) == a.n * b.d < b.n * a.d

\* numpy's rint of c/q for q > 0: to the nearest integer, a tie to the even one
RintDiv(c, q) ==
    LET f == c \div q
        r == c % q
    IN  IF 2 * r < q THEN f
        ELSE IF 2 * r > q THEN f + 1
        ELSE IF f % 2 = 0 THEN f ELSE f + 1

\* round(x, 6) of a coordinate held in ticks
Round6(c) == TicksPerMicro * RintDiv(c, TicksPerMicro)

\* coord_key = (round(x, 6), round(y, 6))
coord_key(x, y) == <<Round6(x), Round6(y)>>

(***************************************************************************)
(* HeatMapGenerator._remove_duplicates (and the same loop inlined in       *)
(* hmh.py generate_heatmap).  unique_coords is a dict: its keys in         *)
(* insertion order are the sequence keys.                                  *)
(***************************************************************************)
\* coord_key in unique_coords
InKeys_last_only(keys, k) == Len(keys) > 0 /\ keys[Len(keys)] = k

InKeys(keys, k) == \E i \in 1..Len(keys) : keys[i] = k

\* list(unique_coords.keys()).index(coord_key): the first position of k, and 0
\* where list.index would raise ValueError
RECURSIVE IndexOf(_, _, _)
IndexOf(keys, k, i) ==
    IF i > Len(keys) THEN 0
    ELSE IF keys[i] = k THEN i
    ELSE IndexOf(keys, k, i + 1)

\* zip(x_coords, y_coords, values) stops at the shortest of the three
ZipLen(xs, ys, vs) ==
    LET m == IF Len(xs) < Len(ys) THEN Len(xs) ELSE Len(ys)
    IN  IF m < Len(vs) THEN m ELSE Len(vs)

\* the loop body with its else branch lost: a repeat is averaged and appended
DedupStep_append_repeat(acc, x, y, val) ==
    LET k == coord_key(x, y)
        idx == IndexOf(acc.keys, k, 1)
        avg == IF idx = 0 THEN acc
               ELSE [acc EXCEPT !.v[idx] = RatHalf(RatAdd(acc.v[idx], val))]
    IN  [keys |-> Append(avg.keys, k),
         x |-> Append(avg.x, x),
         y |-> Append(avg.y, y),
         v |-> Append(avg.v, val),
         raised |-> avg.raised]

\* the loop body averaging into the last entry instead of the key's entry
DedupStep_last_index(acc, x, y, val) ==
    LET k == coord_key(x, y)
    IN  IF ~InKeys(acc.keys, k)
        THEN [acc EXCEPT !.keys = Append(acc.keys, k),
                         !.x = Append(acc.x, x),
                         !.y = Append(acc.y, y),
                         !.v = Append(acc.v, val)]
        ELSE LET idx == Len(acc.keys)
             IN  [acc EXCEPT !.v[idx] = RatHalf(RatAdd(acc.v[idx], val))]

\* the loop body moving a key's point to its latest occurrence
DedupStep_latest_coords(acc, x, y, val) ==
    LET k == coord_key(x, y)
    IN  IF ~InKeys(acc.keys, k)
        THEN [acc EXCEPT !.keys = Append(acc.keys, k),
                         !.x = Append(acc.x, x),
                         !.y = Append(acc.y, y),
                         !.v = Append(acc.v, val)]
        ELSE LET idx == IndexOf(acc.keys, k, 1)
             IN  [acc EXCEPT !.x[idx] = x, !.y[idx] = y,
                             !.v[idx] = RatHalf(RatAdd(acc.v[idx], val))]

\* one iteration of the loop, on one zipped triple; acc holds unique_coords'
\* keys and filtered_x, filtered_y, filtered_values, and whether .index raised
DedupStep(acc, x, y, val) ==
    LET k == coord_key(x, y)
    IN  IF ~InKeys(acc.keys, k)
        THEN [acc EXCEPT !.keys = Append(acc.keys, k),
                         !.x = Append(acc.x, x),
                         !.y = Append(acc.y, y),
                         !.v = Append(acc.v, val)]
        ELSE LET idx == IndexOf(acc.keys, k, 1)
             IN  IF idx = 0 THEN [acc EXCEPT !.raised = TRUE]
                 ELSE [acc EXCEPT !.v[idx] = RatHalf(RatAdd(acc.v[idx], val))]

RECURSIVE DedupLoop(_, _, _, _, _)
DedupLoop(acc, xs, ys, vs, i) ==
    IF i > ZipLen(xs, ys, vs) \/ acc.raised THEN acc
    ELSE DedupLoop(DedupStep(acc, xs[i], ys[i], vs[i]), xs, ys, vs, i + 1)

\* the arrays returned as they came
_remove_duplicates_skipped(xs, ys, vs) ==
    [x |-> xs, y |-> ys, v |-> vs, raised |-> FALSE]

\* the three arrays returned (raised: an exception left the loop instead)
_remove_duplicates(xs, ys, vs) ==
    LET acc == DedupLoop([keys |-> <<>>, x |-> <<>>, y |-> <<>>, v |-> <<>>,
                          raised |-> FALSE],
                         xs, ys, vs, 1)
    IN  [x |-> acc.x, y |-> acc.y, v |-> acc.v, raised |-> acc.raised]


(***************************************************************************)
(* Grids.  np.mgrid[lo:hi:n*1j] is n equally spaced positions from lo to   *)
(* hi, both included (lo alone for n = 1); grid_x[i,j] depends on i and    *)
(* grid_y[i,j] on j.  A cell of a value grid is NaN or a number.           *)
(***************************************************************************)
\* (position i is lo + (i - 1) * (hi - lo) / (n - 1), computed by quotient and
\* remainder of hi - lo to stay within the integers of TLC)
mgrid_axis(lo, hi, n) ==
    [i \in 1..n |->
        IF n = 1 THEN lo
        ELSE lo + (i - 1) * ((hi - lo) \div (n - 1))
                + ((i - 1) * ((hi - lo) % (n - 1))) \div (n - 1)]

Cells(n) == (1..n) \X (1..n)

mgrid_x(x_min, x_max, n) == [c \in Cells(n) |-> mgrid_axis(x_min, x_max, n)[c[1]]]
mgrid_y(y_min, y_max, n) == [c \in Cells(n) |-> mgrid_axis(y_min, y_max, n)[c[2]]]

NaN == [k |-> "nan", n |-> 0, d |-> 1]
Num(r) == [k |-> "num", n |-> r.n, d |-> r.d]

(***************************************************************************)
(* HeatMapGenerator._create_simple_interpolation (the same code as         *)
(* create_simple_interpolation of hmh.py), in IEEE arithmetic: 1/0 is inf, *)
(* inf/inf and 0/0 are NaN.  Distances are in coordinate units.            *)
(***************************************************************************)
\* (grid_x[i,j] - x_coords)**2 + (grid_y[i,j] - y_coords)**2 for one sample
Dist2(gx, gy, x, y) ==
    LET dx == Rat(gx - x, Unit)
        dy == Rat(gy - y, Unit)
    IN  RatAdd(RatMul(dx, dx), RatMul(dy, dy))

\* the distance left as it is
FlooredDist2_no_floor(d2) == d2

\* np.maximum(distances, epsilon), squared
FlooredDist2(d2) == RatMax(d2, Rat(1, EpsInvSq))

\* weights = 1.0 / distances**2, one per sample
IdwWeights(gx, gy, xs, ys) ==
    [i \in 1..Len(xs) |->
        LET fd2 == FlooredDist2(Dist2(gx, gy, xs[i], ys[i]))
        IN  IF fd2.n = 0 THEN [inf |-> TRUE, w |-> RatOfInt(0)]
            ELSE [inf |-> FALSE, w |-> RatDiv(RatOfInt(1), fd2)]]

RECURSIVE SumRat(_, _)
SumRat(rs, n) == IF n = 0 THEN RatOfInt(0) ELSE RatAdd(SumRat(rs, n - 1), rs[n])

\* np.sum(weights), where every weight is finite
SumWeights(ws) == SumRat([i \in 1..Len(ws) |-> ws[i].w], Len(ws))

\* np.sum(weights * values), where every weight is finite
SumWeighted(ws, vs) == SumRat([i \in 1..Len(ws) |-> RatMul(ws[i].w, vs[i])], Len(ws))

\* np.sum(weights * values) / np.sum(weights) is NaN: an infinite weight
\* (inf / inf), or a sum of weights that is 0.0 (0.0 / 0.0), which for
\* weights that are not negative is no weight above zero, and so no sample
IdwCellIsNaN(gx, gy, xs, ys) ==
    LET ws == IdwWeights(gx, gy, xs, ys)
    IN  \/ \E i \in 1..Len(ws) : ws[i].inf
        \/ \A i \in 1..Len(ws) : ws[i].w.n = 0

\* the weighted sum left undivided by the sum of the weights
IdwCell_unnormalised(gx, gy, xs, ys, vs) ==
    LET ws == IdwWeights(gx, gy, xs, ys)
    IN  IF IdwCellIsNaN(gx, gy, xs, ys) THEN NaN
        ELSE Num(SumWeighted(ws, vs))

\* grid_values[i,j]
IdwCell(gx, gy, xs, ys, vs) ==
    LET ws == IdwWeights(gx, gy, xs, ys)
    IN  IF IdwCellIsNaN(gx, gy, xs, ys) THEN NaN
        ELSE Num(RatDiv(SumWeighted(ws, vs), SumWeights(ws)))

_create_simple_interpolation(xs, ys, vs, gx, gy) ==
    [c \in DOMAIN gx |-> IdwCell(gx[c], gy[c], xs, ys, vs)]

(***************************************************************************)
(* Sequences of samples.                                                   *)
(***************************************************************************)
RECURSIVE SeqsUpTo(_, _)
SeqsUpTo(S, n) ==
    IF n = 0 THEN {<<>>}
    ELSE LET shorter == SeqsUpTo(S, n - 1)
         IN  shorter \cup {Append(s, e) : s \in {t \in shorter : Len(t) = n - 1}, e \in S}

XsOf(s) == [i \in 1..Len(s) |-> s[i].x]
YsOf(s) == [i \in 1..Len(s) |-> s[i].y]
VsOf(s) == [i \in 1..Len(s) |-> s[i].v]

\* the distinct keys of the first n zipped coordinates
KeySet(xs, ys, n) == {coord_key(xs[i], ys[i]) : i \in 1..n}

NoArrays == [x |-> <<>>, y |-> <<>>, v |-> <<>>, raised |-> FALSE]

(***************************************************************************)
(* Configuration (core/config.py) and the metric table.                    *)
(***************************************************************************)
HEATMAP_TYPES ==
    [t \in {"RSSI (Signal Strength)", "Average Latency", "TCP Throughput",
            "UDP Throughput", "Packet Loss", "Jitter"} |->
        CASE t = "RSSI (Signal Strength)" -> "rssi"
          [] t = "Average Latency" -> "latency"
          [] t = "TCP Throughput" -> "tcp_throughput"
          [] t = "UDP Throughput" -> "udp_throughput"
          [] t = "Packet Loss" -> "packet_loss"
          [] t = "Jitter" -> "jitter"]

INTERPOLATION_METHODS_linear_first == <<"linear", "cubic", "nearest">>

INTERPOLATION_METHODS == <<"cubic", "linear", "nearest">>

\* the fixed axis range of the core generator, in ticks
FIXED_X_MAX == 200 * Unit
FIXED_Y_MAX == 100 * Unit

\* "throughput" in HEATMAP_TYPES[selected_type].lower()
IsThroughput(t) == HEATMAP_TYPES[t] \in {"tcp_throughput", "udp_throughput"}

\* a[valid_indices] with valid_indices = values > 0, for one of the arrays
RECURSIVE TakeValid(_, _, _)
TakeValid(a, vs, n) ==
    IF n = 0 THEN <<>>
    ELSE IF vs[n].n > 0 THEN Append(TakeValid(a, vs, n - 1), a[n])
    ELSE TakeValid(a, vs, n - 1)

\* the test for an emptied metric left out
AnyValid_always(vs) == TRUE

\* any(valid_indices)
AnyValid(vs) == \E i \in 1..Len(vs) : vs[i].n > 0

FilterValid(xs, ys, vs) ==
    [x |-> TakeValid(xs, vs, Len(vs)), y |-> TakeValid(ys, vs, Len(vs)),
     v |-> TakeValid(vs, vs, Len(vs)), raised |-> FALSE]

RECURSIVE SeqMin(_, _)
SeqMin(a, n) == IF n = 1 THEN a[1]
                ELSE LET m == SeqMin(a, n - 1) IN IF a[n] < m THEN a[n] ELSE m
RECURSIVE SeqMax(_, _)
SeqMax(a, n) == IF n = 1 THEN a[1]
                ELSE LET m == SeqMax(a, n - 1) IN IF a[n] > m THEN a[n] ELSE m

\* the bounds taken from the extent of the points
_calculate_bounds_of_points(xs, ys) ==
    <<SeqMin(xs, Len(xs)), SeqMax(xs, Len(xs)), SeqMin(ys, Len(ys)), SeqMax(ys, Len(ys))>>

\* HeatMapGenerator._calculate_bounds: the full axis range, whatever the points
_calculate_bounds(xs, ys) == <<0, FIXED_X_MAX, 0, FIXED_Y_MAX>>

\* the padding taken as 0.1
legacy_bounds_pad_tenth(xs, ys) ==
    LET x_min == SeqMin(xs, Len(xs))
        x_max == SeqMax(xs, Len(xs))
        y_min == SeqMin(ys, Len(ys))
        y_max == SeqMax(ys, Len(ys))
        x_range == IF x_max - x_min > Unit THEN x_max - x_min ELSE Unit
        y_range == IF y_max - y_min > Unit THEN y_max - y_min ELSE Unit
    IN  <<x_min - x_range \div 10, x_max + x_range \div 10,
          y_min - y_range \div 10, y_max + y_range \div 10>>

\* the range taken without its floor of 1
legacy_bounds_no_floor(xs, ys) ==
    LET x_min == SeqMin(xs, Len(xs))
        x_max == SeqMax(xs, Len(xs))
        y_min == SeqMin(ys, Len(ys))
        y_max == SeqMax(ys, Len(ys))
    IN  <<x_min - (x_max - x_min) \div 5, x_max + (x_max - x_min) \div 5,
          y_min - (y_max - y_min) \div 5, y_max + (y_max - y_min) \div 5>>

\* hmh.py: the extent of the points, padded by 0.2 of a range of at least 1
\* (range * 0.2 is a fifth of the range in ticks, exact for the ranges of the
\* data points here, which are whole units)
legacy_bounds(xs, ys) ==
    LET x_min == SeqMin(xs, Len(xs))
        x_max == SeqMax(xs, Len(xs))
        y_min == SeqMin(ys, Len(ys))
        y_max == SeqMax(ys, Len(ys))
        x_range == IF x_max - x_min > Unit THEN x_max - x_min ELSE Unit
        y_range == IF y_max - y_min > Unit THEN y_max - y_min ELSE Unit
    IN  <<x_min - x_range \div 5, x_max + x_range \div 5,
          y_min - y_range \div 5, y_max + y_range \div 5>>

(***************************************************************************)
(* scipy.interpolate.griddata, as far as the chain can tell its results    *)
(* apart: it raises, or returns a grid, of which the chain reads which     *)
(* cells are NaN.  A grid is kept as its producer and its NaN mask.        *)
(* linear and cubic triangulate the points, which fails for fewer than     *)
(* three points and for collinear points; any call can fail otherwise too. *)
(***************************************************************************)
NoGrid == [by |-> "none", nan |-> <<>>]

GridOf(method, kind, n) ==
    [by |-> method,
     nan |-> [c \in Cells(n) |->
                CASE kind = "allnan" -> TRUE
                  [] kind = "some_nan" -> c = <<1, 1>>
                  [] OTHER -> FALSE]]

\* the points lie on one line (or are fewer than three): every two of them
\* are on one line with the first
Collinear(xs, ys) ==
    \A j, k \in 1..Len(xs) :
        RatMul(Rat(xs[j] - xs[1], Unit), Rat(ys[k] - ys[1], Unit))
            = RatMul(Rat(xs[k] - xs[1], Unit), Rat(ys[j] - ys[1], Unit))

\* the results griddata can have: "raise" or the kind of grid returned
griddata(xs, ys, vs, n, method) ==
    IF Len(xs) = 0 \/ (method \in {"linear", "cubic"} /\ Collinear(xs, ys))
    THEN {"raise", "allnan"}
    ELSE {"raise", "allnan", "defined"} \cup (IF n > 1 THEN {"some_nan"} ELSE {})

\* np.isnan(grid_values).all()
AllNaN(g) == \A c \in DOMAIN g.nan : g.nan[c]

\* the test taken for the success of a method, were every grid accepted
IsSuccess_any_grid(g) == TRUE

\* the test taken for the success of a method, were it np.isnan(...).any()
IsSuccess_no_nan(g) == \A c \in DOMAIN g.nan : ~g.nan[c]

\* not np.isnan(grid_values).all()
IsSuccess(g) == ~AllNaN(g)

\* the chain without the cubic gate
SkipsCubic_never(vs, method) == FALSE

\* the cubic gate set one sample too low
SkipsCubic_below_three(vs, method) == Len(vs) < 3 /\ method = "cubic"

\* len(values) < 4 and method == 'cubic'
SkipsCubic(vs, method) == Len(vs) < 4 /\ method = "cubic"

\* np.isnan of the grid of _create_simple_interpolation (its numbers are left
\* out here: over the full axis range they exceed the 32-bit integers of TLC)
IdwGrid(xs, ys, vs, gx, gy) ==
    [by |-> "idw",
     nan |-> [c \in DOMAIN gx |-> IdwCellIsNaN(gx[c], gy[c], xs, ys)]]

(***************************************************************************)
(* The metric table: get_heatmap_data of core/data_processor.py and of     *)
(* hmh.py.  A data point holds its coordinates and one value per metric.   *)
(***************************************************************************)
NoMetric == [values |-> <<>>, label |-> "", colormap |-> "", raised |-> FALSE]

\* the if / elif chain on data_key, the same in both files
MetricOf(data, data_key) ==
    CASE data_key = "rssi" ->
            [values |-> [i \in 1..Len(data) |-> data[i].rssi],
             label |-> "RSSI (dBm)", colormap |-> "RdYlGn", raised |-> FALSE]
      [] data_key = "latency" ->
            [values |-> [i \in 1..Len(data) |-> data[i].avg_latency_ms],
             label |-> "Average Latency (ms)", colormap |-> "RdYlBu_r", raised |-> FALSE]
      [] data_key = "tcp_throughput" ->
            [values |-> [i \in 1..Len(data) |-> data[i].tcp_throughput_mbps],
             label |-> "TCP Throughput (Mbps)", colormap |-> "viridis", raised |-> FALSE]
      [] data_key = "udp_throughput" ->
            [values |-> [i \in 1..Len(data) |-> data[i].udp_throughput_mbps],
             label |-> "UDP Throughput (Mbps)", colormap |-> "plasma", raised |-> FALSE]
      [] data_key = "packet_loss" ->
            [values |-> [i \in 1..Len(data) |-> data[i].packet_loss_percent],
             label |-> "Packet Loss (%)", colormap |-> "Reds", raised |-> FALSE]
      [] data_key = "jitter" ->
            [values |-> [i \in 1..Len(data) |-> data[i].jitter_ms],
             label |-> "Jitter (ms)", colormap |-> "YlOrRd", raised |-> FALSE]
      [] OTHER ->
            [values |-> [i \in 1..Len(data) |-> data[i].rssi],
             label |-> "RSSI (dBm)", colormap |-> "RdYlGn", raised |-> FALSE]

\* DataProcessor.get_heatmap_data: data_key = Config.HEATMAP_TYPES.get(t, "rssi")
get_heatmap_data(data, t) ==
    MetricOf(data, IF t \in DOMAIN HEATMAP_TYPES THEN HEATMAP_TYPES[t] ELSE "rssi")

\* hmh.py get_heatmap_data: data_key = self.heatmap_types[t], a KeyError
\* (raised) for a type that the table does not hold
legacy_get_heatmap_data(data, t) ==
    IF t \in DOMAIN HEATMAP_TYPES THEN MetricOf(data, HEATMAP_TYPES[t])
    ELSE [NoMetric EXCEPT !.raised = TRUE]

(***************************************************************************)
(* Point labels: f'{val:.0f}' for a throughput label, f'{val:.1f}'         *)
(* otherwise.  Python rounds the exact value of the float, a tie to even.  *)
(***************************************************************************)
MAX_POINTS_FOR_LABELS == 10

Digits == <<"0", "1", "2", "3", "4", "5", "6", "7", "8", "9">>

RECURSIVE NatStr(_)
NatStr(n) == IF n < 10 THEN Digits[n + 1] ELSE NatStr(n \div 10) \o Digits[(n % 10) + 1]

\* f'{val:.1f}'
Format1(v) ==
    LET t == RintDiv(Abs(v.n) * 10, v.d)
    IN  (IF v.n < 0 THEN "-" ELSE "") \o NatStr(t \div 10) \o "." \o NatStr(t % 10)

\* f'{val:.0f}'
Format0(v) ==
    (IF v.n < 0 THEN "-" ELSE "") \o NatStr(RintDiv(Abs(v.n), v.d))

\* "throughput" in label.lower(), over the labels of the metric table
LabelIsThroughput(label) ==
    label \in {"TCP Throughput (Mbps)", "UDP Throughput (Mbps)"}

\* every label printed with one decimal
format_str_one_decimal(val, label) == Format1(val)

format_str(val, label) ==
    IF LabelIsThroughput(label) THEN Format0(val) ELSE Format1(val)

\* the label threshold taken strictly
_add_point_labels_strict(xs, ys, vs, label) ==
    IF Len(xs) < MAX_POINTS_FOR_LABELS
    THEN [i \in 1..ZipLen(xs, ys, vs) |->
            [text |-> format_str(vs[i], label), x |-> xs[i], y |-> ys[i]]]
    ELSE <<>>

\* HeatMapGenerator._add_point_labels (hmh.py tests len(x_coords) <= 10 inside
\* the same loop): the annotations, one per zipped point
_add_point_labels(xs, ys, vs, label) ==
    IF Len(xs) <= MAX_POINTS_FOR_LABELS
    THEN [i \in 1..ZipLen(xs, ys, vs) |->
            [text |-> format_str(vs[i], label), x |-> xs[i], y |-> ys[i]]]
    ELSE <<>>

(***************************************************************************)
(* The scene handed to matplotlib, and the status line.                    *)
(***************************************************************************)
NoStatus == [kind |-> "none", n |-> 0]

NoScene == [kind |-> "none", points |-> <<>>, labels |-> <<>>, grid |-> NoGrid,
            bounds |-> <<>>, status |-> NoStatus]

(***************************************************************************)
(* One request.                                                            *)
(***************************************************************************)
\* a data point with v as its RSSI, latency, packet loss and jitter
DataPoint(x, y, v, tcp, udp) ==
    [x |-> x, y |-> y, rssi |-> v, avg_latency_ms |-> v, packet_loss_percent |-> v,
     jitter_ms |-> v, tcp_throughput_mbps |-> tcp, udp_throughput_mbps |-> udp]

\* the data points that can be loaded; the first three are collinear, the
\* fifth and the seventh repeat the coordinates of the first and the second,
\* the sixth has a throughput below zero, the first and the eighth span
\* [0, 10] x [0, 5], the ninth is (50, 25) with an RSSI of -45
DataPool ==
    << DataPoint(0, 0, RatOfInt(1), RatOfInt(1), RatOfInt(1)),
       DataPoint(Unit, Unit, RatOfInt(2), RatOfInt(2), RatOfInt(2)),
       DataPoint(2 * Unit, 2 * Unit, RatOfInt(3), RatOfInt(3), RatOfInt(3)),
       DataPoint(2 * Unit, 0, RatOfInt(0), RatOfInt(0), RatOfInt(0)),
       DataPoint(0, 0, RatOfInt(3), RatOfInt(3), RatOfInt(0)),
       DataPoint(0, 2 * Unit, RatOfInt(2), RatOfInt(-1), RatOfInt(2)),
       DataPoint(Unit, Unit, RatOfInt(0), RatOfInt(0), RatOfInt(0)),
       DataPoint(10 * Unit, 5 * Unit, RatOfInt(4), RatOfInt(4), RatOfInt(4)),
       DataPoint(50 * Unit, 25 * Unit, RatOfInt(-45), RatOfInt(0), Rat(5, 2)) >>

\* the pool's points with their index in S, in the pool's order
RECURSIVE PoolSeq(_, _)
PoolSeq(S, n) ==
    IF n = 0 THEN <<>>
    ELSE IF n \in S THEN Append(PoolSeq(S, n - 1), DataPool[n])
    ELSE PoolSeq(S, n - 1)

\* n data points on n coordinates, more than the label threshold allows
ManyPoints(n) ==
    [i \in 1..n |-> DataPoint(i * Unit, ((i * i) % 5) * Unit,
                              RatOfInt(i), RatOfInt(i), RatOfInt(i))]

\* the threshold's number of coordinates, one below it, one above it, and
\* one above it in data points of which two share their coordinates
ManySets ==
    {ManyPoints(MAX_POINTS_FOR_LABELS - 1),
     ManyPoints(MAX_POINTS_FOR_LABELS),
     ManyPoints(MAX_POINTS_FOR_LABELS + 1),
     Append(ManyPoints(MAX_POINTS_FOR_LABELS),
            DataPoint(Unit, Unit, RatOfInt(4), RatOfInt(4), RatOfInt(4)))}

\* two data points outside the rectangle [0, 200] x [0, 100]
FarPoints ==
    << DataPoint(-10 * Unit, -10 * Unit, RatOfInt(1), RatOfInt(1), RatOfInt(1)),
       DataPoint(250 * Unit, 120 * Unit, RatOfInt(2), RatOfInt(2), RatOfInt(2)) >>

DataSets ==
    {PoolSeq(S, Len(DataPool)) :
        S \in {T \in SUBSET (1..Len(DataPool)) : Cardinality(T) <= MaxPoints}}
    \cup ManySets \cup {FarPoints, SubSeq(FarPoints, 2, 2)}

\* the arrays handed to the generator, with the label and the colormap
NoArgs == [x |-> <<>>, y |-> <<>>, v |-> <<>>, label |-> "", colormap |-> ""]

FlowIdle ==
    /\ pc = "off"
    /\ app = "none"
    /\ wifi_data = <<>>
    /\ selected_type = "RSSI (Signal Strength)"
    /\ args = NoArgs
    /\ x_coords = <<>>
    /\ y_coords = <<>>
    /\ values = <<>>
    /\ bounds = <<>>
    /\ grid_x = <<>>
    /\ grid_y = <<>>
    /\ method_idx = 0
    /\ trace = <<>>
    /\ grid_values = NoGrid
    /\ scene = NoScene

FlowInit ==
    /\ pc = "idle"
    /\ app = "none"
    /\ wifi_data \in DataSets
    /\ selected_type \in DOMAIN HEATMAP_TYPES
    /\ args = NoArgs
    /\ x_coords = <<>>
    /\ y_coords = <<>>
    /\ values = <<>>
    /\ bounds = <<>>
    /\ grid_x = <<>>
    /\ grid_y = <<>>
    /\ method_idx = 0
    /\ trace = <<>>
    /\ grid_values = NoGrid
    /\ scene = NoScene

\* the request ends without interpolation, with the scene sc
EndWithout(a, sc) ==
    /\ pc' = "done"
    /\ args' = a
    /\ x_coords' = a.x
    /\ y_coords' = a.y
    /\ values' = a.v
    /\ bounds' = sc.bounds
    /\ grid_x' = <<>>
    /\ grid_y' = <<>>
    /\ method_idx' = 0
    /\ scene' = sc

\* the arrays a are deduplicated, the lattice is laid over the bounds and
\* the chain is entered
EnterChain(a, dd, b) ==
    /\ pc' = "chain"
    /\ args' = a
    /\ x_coords' = dd.x
    /\ y_coords' = dd.y
    /\ values' = dd.v
    /\ bounds' = b
    /\ grid_x' = mgrid_x(b[1], b[2], GridSize)
    /\ grid_y' = mgrid_y(b[3], b[4], GridSize)
    /\ method_idx' = 1
    /\ scene' = NoScene

\* HeatMapGenerator._plot_single_point: the marker, its label, the full axis
\* range
_plot_single_point(x, y, value, label) ==
    [kind |-> "single",
     points |-> <<<<x, y, value>>>>,
     labels |-> <<[text |-> format_str(value, label), x |-> x, y |-> y]>>,
     grid |-> NoGrid,
     bounds |-> <<0, FIXED_X_MAX, 0, FIXED_Y_MAX>>,
     status |-> NoStatus]

\* hmh.py plot_single_point: the marker, its label, a window of 5 around it
legacy_plot_single_point(x, y, value, label) ==
    [kind |-> "single",
     points |-> <<<<x, y, value>>>>,
     labels |-> <<[text |-> format_str(value, label), x |-> x, y |-> y]>>,
     grid |-> NoGrid,
     bounds |-> <<x - 5 * Unit, x + 5 * Unit, y - 5 * Unit, y + 5 * Unit>>,
     status |-> [kind |-> "single", n |-> 1]]

\* HeatMapGenerator.generate_heatmap, up to the call of the chain; the status
\* is set by the caller after it returns
Core_generate_heatmap(a) ==
    IF Len(a.v) = 1
    THEN EndWithout(a, [_plot_single_point(a.x[1], a.y[1], a.v[1], a.label)
                            EXCEPT !.status = [kind |-> "generated", n |-> Len(a.v)]])
    ELSE LET dd == _remove_duplicates(a.x, a.y, a.v)
         IN  EnterChain(a, dd, _calculate_bounds(dd.x, dd.y))

\* HeatMapGenerator.generate_empty_heatmap
EmptyScene == [kind |-> "empty", points |-> <<>>, labels |-> <<>>, grid |-> NoGrid,
               bounds |-> <<0, FIXED_X_MAX, 0, FIXED_Y_MAX>>, status |-> NoStatus]

\* gui/main_window.py HeatMapHero.generate_heatmap, with the generator's
\* generate_heatmap or generate_empty_heatmap that it calls
Gui_generate_heatmap ==
    /\ pc \in {"idle", "done"}
    /\ app' = "core"
    /\ trace' = <<>>
    /\ grid_values' = NoGrid
    /\ LET m == get_heatmap_data(wifi_data, selected_type)
           all == [x |-> XsOf(wifi_data), y |-> YsOf(wifi_data), v |-> m.values,
                   label |-> m.label, colormap |-> m.colormap]
           valid == FilterValid(all.x, all.y, all.v)
           kept == [all EXCEPT !.x = valid.x, !.y = valid.y, !.v = valid.v]
       IN  IF Len(wifi_data) = 0
           THEN EndWithout(NoArgs, [EmptyScene EXCEPT
                                        !.status = [kind |-> "empty_no_points", n |-> 0]])
           ELSE IF IsThroughput(selected_type)
                THEN IF ~AnyValid(all.v)
                     THEN EndWithout(NoArgs, [EmptyScene EXCEPT
                                        !.status = [kind |-> "empty_no_metric", n |-> 0]])
                     ELSE Core_generate_heatmap(kept)
                ELSE Core_generate_heatmap(all)
    /\ UNCHANGED <<wifi_data, selected_type>>
    /\ UNCHANGED outsideFlow

\* hmh.py HeatMapHero.generate_heatmap, up to the call of the chain
Legacy_generate_heatmap ==
    /\ pc \in {"idle", "done"}
    /\ app' = "legacy"
    /\ trace' = <<>>
    /\ grid_values' = NoGrid
    /\ LET m == legacy_get_heatmap_data(wifi_data, selected_type)
           all == [x |-> XsOf(wifi_data), y |-> YsOf(wifi_data), v |-> m.values,
                   label |-> m.label, colormap |-> m.colormap]
           valid == FilterValid(all.x, all.y, all.v)
           kept == [all EXCEPT !.x = valid.x, !.y = valid.y, !.v = valid.v]
           a == IF IsThroughput(selected_type) THEN kept ELSE all
       IN  IF Len(wifi_data) = 0
           THEN \* a warning box; nothing is drawn and the status line is left
                EndWithout(NoArgs, [NoScene EXCEPT !.kind = "warning",
                                                   !.status = scene.status])
           ELSE IF IsThroughput(selected_type) /\ ~AnyValid(all.v)
           THEN \* a warning box over the cleared axes
                EndWithout(NoArgs, [NoScene EXCEPT !.kind = "warning",
                                        !.status = [kind |-> "generating", n |-> 0]])
           ELSE IF Len(a.v) = 1
           THEN EndWithout(a, legacy_plot_single_point(a.x[1], a.y[1], a.v[1], a.label))
           ELSE LET dd == _remove_duplicates(a.x, a.y, a.v)
                IN  EnterChain(a, dd, legacy_bounds(dd.x, dd.y))
    /\ UNCHANGED <<wifi_data, selected_type>>
    /\ UNCHANGED outsideFlow

chainFrame == <<app, wifi_data, selected_type, args, x_coords, y_coords, values,
                bounds, grid_x, grid_y, scene>>

\* _interpolate_with_fallback, one turn of the for loop: continue
ChainSkip ==
    /\ pc = "chain"
    /\ method_idx <= Len(INTERPOLATION_METHODS)
    /\ SkipsCubic(values, INTERPOLATION_METHODS[method_idx])
    /\ trace' = Append(trace, [method |-> INTERPOLATION_METHODS[method_idx],
                               ev |-> "skip", grid |-> NoGrid])
    /\ method_idx' = method_idx + 1
    /\ UNCHANGED <<pc, grid_values>>
    /\ UNCHANGED chainFrame
    /\ UNCHANGED outsideFlow

\* _interpolate_with_fallback, one turn of the for loop: griddata is called;
\* an exception is caught and the loop goes on, an all-NaN grid lets the loop
\* go on, any other grid is returned
ChainAttempt ==
    /\ pc = "chain"
    /\ method_idx <= Len(INTERPOLATION_METHODS)
    /\ ~SkipsCubic(values, INTERPOLATION_METHODS[method_idx])
    /\ \E r \in griddata(x_coords, y_coords, values, GridSize,
                         INTERPOLATION_METHODS[method_idx]) :
          LET method == INTERPOLATION_METHODS[method_idx]
              g == IF r = "raise" THEN NoGrid ELSE GridOf(method, r, GridSize)
          IN  /\ trace' = Append(trace, [method |-> method, ev |-> r, grid |-> g])
              /\ IF r # "raise" /\ IsSuccess(g)
                 THEN /\ pc' = "render"
                      /\ grid_values' = g
                      /\ UNCHANGED method_idx
                 ELSE /\ method_idx' = method_idx + 1
                      /\ UNCHANGED <<pc, grid_values>>
    /\ UNCHANGED chainFrame
    /\ UNCHANGED outsideFlow

\* _interpolate_with_fallback after the loop: the inverse-distance fallback
ChainFallback ==
    /\ pc = "chain"
    /\ method_idx > Len(INTERPOLATION_METHODS)
    /\ grid_values' = IdwGrid(x_coords, y_coords, values, grid_x, grid_y)
    /\ pc' = "render"
    /\ UNCHANGED <<method_idx, trace>>
    /\ UNCHANGED chainFrame
    /\ UNCHANGED outsideFlow

\* generate_heatmap after the chain: imshow of the grid, scatter of the points
Render ==
    /\ pc = "render"
    /\ scene' = [kind |-> "heatmap",
                 points |-> [i \in 1..Len(values) |-> <<x_coords[i], y_coords[i], values[i]>>],
                 labels |-> _add_point_labels(x_coords, y_coords, values, args.label),
                 grid |-> grid_values,
                 bounds |-> bounds,
                 status |-> [kind |-> "generated",
                             n |-> IF app = "core" THEN Len(args.v) ELSE Len(values)]]
    /\ pc' = "done"
    /\ UNCHANGED <<app, wifi_data, selected_type, args, x_coords, y_coords, values,
                   bounds, grid_x, grid_y, method_idx, trace, grid_values>>
    /\ UNCHANGED outsideFlow

FlowNext ==
    \/ Gui_generate_heatmap
    \/ Legacy_generate_heatmap
    \/ ChainSkip
    \/ ChainAttempt
    \/ ChainFallback
    \/ Render


(***************************************************************************)
(* One HeatMapGenerator object serving call after call on one axes object. *)
(* A call is taken whole; what griddata answers in it is the environment's *)
(* choice, so a call has a set of possible results.                        *)
(***************************************************************************)
\* HeatMapGenerator.__init__
NewGenerator(theme_manager) ==
    [theme_manager |-> theme_manager, current_colorbar |-> "None"]

\* the axes right after they were made or cleared
EmptyAxes == NoScene

\* the axes left as they are
ax_clear_kept(ax) == ax

\* ax.clear()
ax_clear(ax) == EmptyAxes

\* ax.imshow, ax.scatter, ax.annotate, ax.set_xlim: the markers and the labels
\* of sc are added to those the axes hold, the image and the limits are set
Draw(ax, sc) ==
    [sc EXCEPT !.points = ax.points \o sc.points,
               !.labels = ax.labels \o sc.labels]

\* "if self.current_colorbar: ... finally: self.current_colorbar = None"
RemoveColorbar(self) == [self EXCEPT !.current_colorbar = "None"]

\* _interpolate_with_fallback from the method at position idx on: the
\* possible courses of the loop, each with the grid it returns
RECURSIVE _interpolate_with_fallback(_, _, _, _, _, _)
_interpolate_with_fallback(xs, ys, vs, gx, gy, idx) ==
    IF idx > Len(INTERPOLATION_METHODS)
    THEN {[trace |-> <<>>, grid |-> IdwGrid(xs, ys, vs, gx, gy)]}
    ELSE LET method == INTERPOLATION_METHODS[idx]
             rest == _interpolate_with_fallback(xs, ys, vs, gx, gy, idx + 1)
             After(step) == {[trace |-> <<step>> \o t.trace, grid |-> t.grid] : t \in rest}
         IN  IF SkipsCubic(vs, method)
             THEN After([method |-> method, ev |-> "skip", grid |-> NoGrid])
             ELSE UNION {
                    LET g == IF r = "raise" THEN NoGrid ELSE GridOf(method, r, GridSize)
                        step == [method |-> method, ev |-> r, grid |-> g]
                    IN  IF r # "raise" /\ IsSuccess(g)
                        THEN {[trace |-> <<step>>, grid |-> g]}
                        ELSE After(step)
                    : r \in griddata(xs, ys, vs, GridSize, method)}

\* HeatMapGenerator.generate_heatmap(ax, x_coords, y_coords, values, label,
\* colormap): the possible results, each the object, the axes and the course
\* of the chain
generate_heatmap(self, ax, a) ==
    LET ax1 == ax_clear(ax)
        self1 == RemoveColorbar(self)
    IN  IF Len(a.v) = 1
        THEN {[self |-> self1,
               ax |-> Draw(ax1, _plot_single_point(a.x[1], a.y[1], a.v[1], a.label)),
               trace |-> <<>>]}
        ELSE LET dd == _remove_duplicates(a.x, a.y, a.v)
                 b == _calculate_bounds(dd.x, dd.y)
                 gx == mgrid_x(b[1], b[2], GridSize)
                 gy == mgrid_y(b[3], b[4], GridSize)
             IN  {[self |-> self1,
                   ax |-> Draw(ax1,
                       [kind |-> "heatmap",
                        points |-> [i \in 1..Len(dd.v) |-> <<dd.x[i], dd.y[i], dd.v[i]>>],
                        labels |-> _add_point_labels(dd.x, dd.y, dd.v, a.label),
                        grid |-> r.grid,
                        bounds |-> b,
                        status |-> NoStatus]),
                   trace |-> r.trace]
                  : r \in _interpolate_with_fallback(dd.x, dd.y, dd.v, gx, gy, 1)}

\* HeatMapGenerator.generate_empty_heatmap(ax, heatmap_type)
generate_empty_heatmap(self, ax, heatmap_type) ==
    {[self |-> RemoveColorbar(self), ax |-> Draw(ax_clear(ax), EmptyScene), trace |-> <<>>]}

\* the arrays of a metric over loaded data, as the window hands them over
ArgsOf(data, t) ==
    LET m == get_heatmap_data(data, t)
    IN  [x |-> XsOf(data), y |-> YsOf(data), v |-> m.values,
         label |-> m.label, colormap |-> m.colormap]

\* the arguments of the calls: one sample, two samples on one coordinate,
\* three samples that are not on one line
GenArgs ==
    {ArgsOf(PoolSeq(S, Len(DataPool)), t) :
        S \in {{1}, {1, 5}, {1, 2, 4}},
        t \in {"RSSI (Signal Strength)", "TCP Throughput"}}

GenTypes == {"RSSI (Signal Strength)", "Jitter"}

\* what griddata answered in the course tr of the chain
Answers(tr) == [i \in 1..Len(tr) |-> tr[i].ev]

NoCall == [op |-> "none", a |-> NoArgs, heatmap_type |-> "", answers |-> <<>>]

NoRef == [call |-> NoCall, ax |-> EmptyAxes, trace |-> <<>>]

GenIdle ==
    /\ g_pc = "off"
    /\ g_self = NewGenerator("None")
    /\ g_ax = EmptyAxes
    /\ g_call = NoCall
    /\ g_trace = <<>>
    /\ g_ref = NoRef
    /\ g_mixed = FALSE

GenInit ==
    /\ g_pc = "new"
    /\ g_self \in {NewGenerator("None"), NewGenerator("ThemeManager")}
    /\ g_ax = EmptyAxes
    /\ g_call = NoCall
    /\ g_trace = <<>>
    /\ g_ref = NoRef
    /\ g_mixed = FALSE

\* the call c has given the result r
Served(c, r) ==
    /\ g_pc' = "used"
    /\ g_self' = r.self
    /\ g_ax' = r.ax
    /\ g_trace' = r.trace
    /\ g_call' = c
    /\ g_ref' = IF g_pc = "new" THEN [call |-> c, ax |-> r.ax, trace |-> r.trace]
                ELSE g_ref
    /\ g_mixed' = (g_pc = "used" /\ (g_mixed \/ c # g_ref.call))

GenCall ==
    /\ g_pc \in {"new", "used"}
    /\ \E a \in GenArgs : \E r \in generate_heatmap(g_self, g_ax, a) :
          Served([op |-> "generate_heatmap", a |-> a, heatmap_type |-> "",
                  answers |-> Answers(r.trace)], r)
    /\ UNCHANGED outsideGen

GenEmptyCall ==
    /\ g_pc \in {"new", "used"}
    /\ \E t \in GenTypes : \E r \in generate_empty_heatmap(g_self, g_ax, t) :
          Served([op |-> "generate_empty_heatmap", a |-> NoArgs, heatmap_type |-> t,
                  answers |-> <<>>], r)
    /\ UNCHANGED outsideGen

GenNext == GenCall \/ GenEmptyCall

(***************************************************************************)
(* JSON records, the DataProcessor that loads them (core/data_processor.py)*)
(* and the analyzer that writes them (wifianalizer/wifi_analyzer.py).      *)
(*                                                                         *)
(* A JSON value is absent (no such key, or null), a number n/d, or a       *)
(* string.  A record is held flat: x and y of "coordinates", rssi and      *)
(* signal of "wifi_info", the three values of "latency", the two of        *)
(* "throughput"; a missing group is a group with every value absent.       *)
(***************************************************************************)
JAbsent == [k |-> "absent", n |-> 0, d |-> 1, s |-> ""]
JNum(n, d) == [k |-> "num", n |-> n, d |-> d, s |-> ""]
JStr(s) == [k |-> "str", n |-> 0, d |-> 1, s |-> s]

\* the strings that Python reads as a number, with the number
Numerals == [s \in {"0", "2", "-45", "-60"} |->
                CASE s = "0" -> 0 [] s = "2" -> 2 [] s = "-45" -> -45 [] s = "-60" -> -60]

\* float(v) for a value that is not None: the number itself, the number a
\* string spells, ValueError (raised) for any other string
float(v) ==
    IF v.k = "num" THEN [raised |-> FALSE, r |-> Rat(v.n, v.d)]
    ELSE IF v.k = "str" /\ v.s \in DOMAIN Numerals
    THEN [raised |-> FALSE, r |-> RatOfInt(Numerals[v.s])]
    ELSE [raised |-> TRUE, r |-> RatOfInt(0)]

\* a coordinate as the engine holds it
Ticks(r) == (r.n * Unit) \div r.d

\* info.get(key, 0) for a metric, which is a number where it is present
GetOrZero(v) == IF v.k = "num" THEN Rat(v.n, v.d) ELSE RatOfInt(0)

\* "rssi is None" does not hold
HasRssi(data) == data.rssi.k # "absent"

\* DataProcessor._extract_wifi_data: the data points appended for one record,
\* none or one; an exception is caught and appends nothing
_extract_wifi_data(data) ==
    IF data.shape # "dict" THEN <<>>
    ELSE IF data.x.k = "absent" \/ data.y.k = "absent" THEN <<>>
    ELSE IF ~HasRssi(data) THEN <<>>
    ELSE IF float(data.x).raised \/ float(data.y).raised \/ float(data.rssi).raised
    THEN <<>>
    ELSE << [x |-> Ticks(float(data.x).r),
             y |-> Ticks(float(data.y).r),
             rssi |-> float(data.rssi).r,
             timestamp |-> data.timestamp,
             avg_latency_ms |-> GetOrZero(data.avg_latency_ms),
             packet_loss_percent |-> GetOrZero(data.packet_loss_percent),
             jitter_ms |-> GetOrZero(data.jitter_ms),
             tcp_throughput_mbps |-> GetOrZero(data.tcp_throughput_mbps),
             udp_throughput_mbps |-> GetOrZero(data.udp_throughput_mbps)] >>

RECURSIVE ExtractAll(_, _)
ExtractAll(recs, n) ==
    IF n = 0 THEN <<>> ELSE ExtractAll(recs, n - 1) \o _extract_wifi_data(recs[n])

\* the body of the for loop of load_json_data for one file: a file that is not
\* JSON raises in json.load and gives nothing, a list gives its items in
\* turn, any other JSON value is taken as one record
LoadFile(f) ==
    IF f.kind = "invalid" THEN <<>> ELSE ExtractAll(f.recs, Len(f.recs))

\* the for loop of load_json_data over the first n files
RECURSIVE LoadFiles(_, _)
LoadFiles(files, n) ==
    IF n = 0 THEN <<>> ELSE LoadFiles(files, n - 1) \o LoadFile(files[n])

\* glob.glob(os.path.join(folder_path, "*.json"))
Glob(disk, folder_path) ==
    IF folder_path \in DOMAIN disk THEN disk[folder_path] ELSE <<>>

\* load_json_data with "self.wifi_data = []" lost: the new points are appended
load_json_data_appending(old_data, disk, folder_path) ==
    [wifi_data |-> IF folder_path = "" THEN old_data
                   ELSE old_data \o LoadFiles(Glob(disk, folder_path),
                                               Len(Glob(disk, folder_path))),
     json_folder |-> folder_path]

\* DataProcessor.load_json_data(folder_path): wifi_data and json_folder after it
load_json_data(old_data, disk, folder_path) ==
    [wifi_data |-> IF folder_path = "" THEN <<>>
                   ELSE LoadFiles(Glob(disk, folder_path), Len(Glob(disk, folder_path))),
     json_folder |-> folder_path]

\* ---- the analyzer
\* WiFiAnalyzer._safe_int: int(value), and 0 where int raises
_safe_int(s) == IF s \in DOMAIN Numerals THEN Numerals[s] ELSE 0

NoWifiInfo == [rssi |-> JAbsent, signal |-> JAbsent]

\* _get_macos_wifi_info and _get_linux_wifi_info: the signal level the
\* command printed, "" where it printed none, as 'rssi'
_get_unix_wifi_info(printed) ==
    [rssi |-> JNum(_safe_int(IF printed = "" THEN "0" ELSE printed), 1),
     signal |-> JAbsent]

\* _get_windows_wifi_info: the signal quality netsh printed, as 'signal'
_get_windows_wifi_info(printed) ==
    [rssi |-> JAbsent, signal |-> JStr(IF printed = "" THEN "N/A" ELSE printed)]

\* WiFiAnalyzer.get_wifi_info: {} where the command failed or the system is
\* none of the three
get_wifi_info(os_type, ok, printed) ==
    IF ~ok THEN NoWifiInfo
    ELSE IF os_type \in {"darwin", "linux"} THEN _get_unix_wifi_info(printed)
    ELSE IF os_type = "windows" THEN _get_windows_wifi_info(printed)
    ELSE NoWifiInfo

\* WiFiAnalyzer.analyze_once with the coordinates x and y given: the record;
\* the latency group is filled where a gateway was found
analyze_once(timestamp, run, x, y) ==
    LET wifi_info == get_wifi_info(run.os_type, run.ok, run.printed)
        lat == IF run.gateway THEN JNum(12, 1) ELSE JAbsent
        zero == IF run.gateway THEN JNum(0, 1) ELSE JAbsent
    IN  [shape |-> "dict", timestamp |-> timestamp, os |-> run.os_type,
         x |-> JNum(x, 1), y |-> JNum(y, 1),
         rssi |-> wifi_info.rssi, signal |-> wifi_info.signal,
         avg_latency_ms |-> lat, packet_loss_percent |-> zero, jitter_ms |-> zero,
         tcp_throughput_mbps |-> JAbsent, udp_throughput_mbps |-> JAbsent]

\* main with --once and --output: results is the one record, written as a list
AnalysisFile(timestamp, run, x, y) ==
    [name |-> timestamp, kind |-> "array", origin |-> "analyzer",
     recs |-> <<analyze_once(timestamp, run, x, y)>>]

\* what a run meets: the system, whether its WiFi command succeeded, the
\* signal it printed, whether a gateway was found
AnalyzerRuns ==
    {[os_type |-> "darwin", ok |-> TRUE, printed |-> "-45", gateway |-> TRUE],
     [os_type |-> "linux", ok |-> TRUE, printed |-> "-60", gateway |-> FALSE],
     [os_type |-> "linux", ok |-> TRUE, printed |-> "", gateway |-> TRUE],
     [os_type |-> "linux", ok |-> FALSE, printed |-> "", gateway |-> TRUE],
     [os_type |-> "windows", ok |-> TRUE, printed |-> "85%", gateway |-> TRUE],
     [os_type |-> "windows", ok |-> FALSE, printed |-> "", gateway |-> FALSE]}

\* ---- the folders
\* a record of a file
Record(timestamp, x, y, rssi, lat, tcp) ==
    [shape |-> "dict", timestamp |-> timestamp, os |-> "linux",
     x |-> x, y |-> y, rssi |-> rssi, signal |-> JAbsent,
     avg_latency_ms |-> lat, packet_loss_percent |-> lat, jitter_ms |-> lat,
     tcp_throughput_mbps |-> tcp, udp_throughput_mbps |-> tcp]

\* a JSON value that is no object
NotARecord(timestamp) ==
    [Record(timestamp, JAbsent, JAbsent, JAbsent, JAbsent, JAbsent) EXCEPT !.shape = "other"]

File(name, kind, recs) == [name |-> name, kind |-> kind, origin |-> "other", recs |-> recs]

\* the files a folder can hold: one complete record; a list of a record
\* without latency and throughput, a record without y and a record without
\* rssi; a file that is not JSON; a list of a record whose x is no number, a
\* record whose coordinates are numerals, and a value that is no object
FilePool ==
    << File("f1", "object", <<Record("r1", JNum(0, 1), JNum(0, 1), JNum(-50, 1),
                                     JNum(12, 1), JNum(30, 1))>>),
       File("f2", "array", <<Record("r2", JNum(1, 1), JNum(1, 1), JNum(-60, 1),
                                    JAbsent, JAbsent),
                             Record("r3", JNum(2, 1), JAbsent, JNum(-70, 1),
                                    JNum(20, 1), JNum(10, 1)),
                             Record("r4", JNum(2, 1), JNum(2, 1), JAbsent,
                                    JNum(20, 1), JNum(10, 1))>>),
       File("f3", "invalid", <<>>),
       File("f4", "array", <<Record("r5", JStr("N/A"), JNum(1, 1), JNum(-55, 1),
                                    JNum(5, 1), JAbsent),
                             Record("r6", JStr("2"), JStr("0"), JStr("-45"),
                                    JNum(7, 1), JNum(40, 1)),
                             NotARecord("r7")>>) >>

Folders == {"A", "B"}

\* the folder A holds some of the pool, in the pool's order or with the file
\* that is not JSON first; the folder B holds the first file
Disks ==
    {[fd \in Folders |-> IF fd = "A" THEN a ELSE <<FilePool[1]>>] :
        a \in {<<>>, <<FilePool[1]>>, <<FilePool[2]>>,
               <<FilePool[1], FilePool[2]>>,
               <<FilePool[3], FilePool[1], FilePool[4]>>,
               <<FilePool[1], FilePool[2], FilePool[3], FilePool[4]>>}}

LoadIdle ==
    /\ p_pc = "off"
    /\ p_disk = [fd \in Folders |-> <<>>]
    /\ p_wifi_data = <<>>
    /\ p_json_folder = "None"
    /\ p_read = <<>>
    /\ p_op = "none"
    /\ p_runs = 0

\* DataProcessor.__init__
LoadInit ==
    /\ p_pc = "ready"
    /\ p_disk \in Disks
    /\ p_wifi_data = <<>>
    /\ p_json_folder = "None"
    /\ p_read = <<>>
    /\ p_op = "init"
    /\ p_runs = 0

\* load_json_data(folder_path), as select_json_folder calls it; "" stands for
\* a folder_path that is not true
LoadJsonData ==
    /\ p_pc = "ready"
    /\ \E folder_path \in Folders \cup {""} :
          LET r == load_json_data(p_wifi_data, p_disk, folder_path)
          IN  /\ p_wifi_data' = r.wifi_data
              /\ p_json_folder' = r.json_folder
              /\ p_read' = IF folder_path = "" THEN <<>> ELSE Glob(p_disk, folder_path)
    /\ p_op' = "load"
    /\ UNCHANGED <<p_pc, p_disk, p_runs>>
    /\ UNCHANGED outsideLoad

\* HeatMapHero.reload_data: load_json_data(json_folder) where a folder is set
ReloadData ==
    /\ p_pc = "ready"
    /\ IF p_json_folder \notin {"None", ""}
       THEN LET r == load_json_data(p_wifi_data, p_disk, p_json_folder)
            IN  /\ p_wifi_data' = r.wifi_data
                /\ p_json_folder' = r.json_folder
                /\ p_read' = Glob(p_disk, p_json_folder)
                /\ p_op' = "reload"
       ELSE /\ p_op' = "reload_skipped"
            /\ UNCHANGED <<p_wifi_data, p_json_folder, p_read>>
    /\ UNCHANGED <<p_pc, p_disk, p_runs>>
    /\ UNCHANGED outsideLoad

\* DataProcessor.clear_data
ClearData ==
    /\ p_pc = "ready"
    /\ p_wifi_data' = <<>>
    /\ p_json_folder' = "None"
    /\ p_op' = "clear"
    /\ UNCHANGED <<p_pc, p_disk, p_read, p_runs>>
    /\ UNCHANGED outsideLoad

\* the analyzer run once for a click at (x, y) with a folder selected: its
\* file is written into the folder
AnalyzerOnce ==
    /\ p_pc = "ready"
    /\ p_json_folder \in Folders
    /\ p_runs < MaxRuns
    /\ \E run \in AnalyzerRuns :
          p_disk' = [p_disk EXCEPT ![p_json_folder] =
                        Append(@, AnalysisFile("a" \o NatStr(p_runs + 1), run,
                                               p_runs + 3, 1))]
    /\ p_runs' = p_runs + 1
    /\ p_op' = "analysis"
    /\ UNCHANGED <<p_pc, p_wifi_data, p_json_folder, p_read>>
    /\ UNCHANGED outsideLoad

LoadNext == LoadJsonData \/ ReloadData \/ ClearData \/ AnalyzerOnce

(***************************************************************************)
(* The click analysis of the window (gui/main_window.py).  on_canvas_click *)
(* and the timers run on the Tk thread; each accepted click starts a       *)
(* thread that runs run_wifi_analysis.  The steps of different threads     *)
(* interleave in any order; root.update() inside on_canvas_click lets the  *)
(* Tk thread handle further events before the thread is started.           *)
(***************************************************************************)
\* how run_wifi_analysis can leave its try block: the analyzer script is
\* missing, the subprocess returns 0 or another code, subprocess.run raises
\* TimeoutExpired or another exception
Outcomes == {"noscript", "ok", "fail", "timeout", "error"}

\* a thread right after thread.start()
NewThread == [pc |-> "started", result |-> "none",
              status |-> "none", reload |-> "none", generate |-> "none"]

GuiIdle ==
    /\ u_pc = "off"
    /\ click_enabled = FALSE
    /\ analysis_running = FALSE
    /\ u_folder = FALSE
    /\ u_spawning = 0
    /\ u_threads = <<>>

\* HeatMapHero.__init__, with or without a JSON folder selected afterwards
GuiInit ==
    /\ u_pc = "run"
    /\ click_enabled = FALSE
    /\ analysis_running = FALSE
    /\ u_folder \in BOOLEAN
    /\ u_spawning = 0
    /\ u_threads = <<>>

\* toggle_click_analysis
ToggleClickAnalysis ==
    /\ u_pc = "run"
    /\ click_enabled' = ~click_enabled
    /\ UNCHANGED <<u_pc, analysis_running, u_folder, u_spawning, u_threads>>
    /\ UNCHANGED outsideGui

\* "if not self.click_enabled or self.analysis_running or not event.inaxes:
\* return" does not return
ClickGuard(inaxes) == click_enabled /\ ~analysis_running /\ inaxes

\* on_canvas_click up to root.update()
OnCanvasClick ==
    /\ u_pc = "run"
    /\ \E inaxes \in BOOLEAN :
          /\ ClickGuard(inaxes)
          /\ Len(u_threads) + u_spawning < MaxClicks
          /\ u_spawning' = u_spawning + 1
    /\ UNCHANGED <<u_pc, click_enabled, analysis_running, u_folder, u_threads>>
    /\ UNCHANGED outsideGui

\* on_canvas_click after root.update(): the thread is created and started
StartThread ==
    /\ u_pc = "run"
    /\ u_spawning > 0
    /\ u_spawning' = u_spawning - 1
    /\ u_threads' = Append(u_threads, NewThread)
    /\ UNCHANGED <<u_pc, click_enabled, analysis_running, u_folder>>
    /\ UNCHANGED outsideGui

\* run_wifi_analysis, its first statement: self.analysis_running = True
ThreadBegin(t) ==
    /\ t <= Len(u_threads)
    /\ u_threads[t].pc = "started"
    /\ analysis_running' = TRUE
    /\ u_threads' = [u_threads EXCEPT ![t].pc = "running"]
    /\ UNCHANGED <<u_pc, click_enabled, u_folder, u_spawning>>
    /\ UNCHANGED outsideGui

\* the reload requested after every outcome
SchedulesReload_always(r) == TRUE

\* "if result.returncode == 0: ... if self.data_processor.json_folder:
\* self.root.after(100, self.reload_data)"
SchedulesReload(r) == r = "ok" /\ u_folder

\* the flag reset at the end of the try block only: an exception leaves it set
ResetsFlag_success_only(r) == r \in {"ok", "fail"}

\* the finally clause covers every way out of the try block
ResetsFlag(r) == TRUE

\* run_wifi_analysis from the try block on: the outcome r, with
\* root.after(0, ...) for the status line and root.after(100,
\* self.reload_data) where it applies, and then "finally:
\* self.analysis_running = False"
ThreadFinish(t) ==
    /\ t <= Len(u_threads)
    /\ u_threads[t].pc = "running"
    /\ \E r \in Outcomes :
          /\ u_threads' = [u_threads EXCEPT
                              ![t].pc = "done",
                              ![t].result = r,
                              ![t].status = "pending",
                              ![t].reload = IF SchedulesReload(r) THEN "pending"
                                            ELSE "none"]
          /\ analysis_running' = IF ResetsFlag(r) THEN FALSE ELSE analysis_running
    /\ UNCHANGED <<u_pc, click_enabled, u_folder, u_spawning>>
    /\ UNCHANGED outsideGui

\* the timer of root.after(0, lambda: self.status_var.set(...)) fires
StatusTimer(t) ==
    /\ t <= Len(u_threads)
    /\ u_threads[t].status = "pending"
    /\ u_threads' = [u_threads EXCEPT ![t].status = "fired"]
    /\ UNCHANGED <<u_pc, click_enabled, analysis_running, u_folder, u_spawning>>
    /\ UNCHANGED outsideGui

\* the timer of root.after(100, self.reload_data) fires, after the status
\* timer that is due 100 ms before it: reload_data loads the folder and, with
\* has_data(), requests generate_heatmap by root.after(100, ...)
ReloadTimer(t) ==
    /\ t <= Len(u_threads)
    /\ u_threads[t].reload = "pending"
    /\ u_threads[t].status = "fired"
    /\ \E has_data \in BOOLEAN :
          u_threads' = [u_threads EXCEPT
                           ![t].reload = IF ~u_folder THEN "skipped"
                                         ELSE IF has_data THEN "loaded" ELSE "loaded_empty",
                           ![t].generate = IF u_folder /\ has_data THEN "pending"
                                           ELSE "none"]
    /\ UNCHANGED <<u_pc, click_enabled, analysis_running, u_folder, u_spawning>>
    /\ UNCHANGED outsideGui

\* the timer of root.after(100, self.generate_heatmap) fires
GenerateTimer(t) ==
    /\ t <= Len(u_threads)
    /\ u_threads[t].generate = "pending"
    /\ u_threads' = [u_threads EXCEPT ![t].generate = "fired"]
    /\ UNCHANGED <<u_pc, click_enabled, analysis_running, u_folder, u_spawning>>
    /\ UNCHANGED outsideGui

GuiNext ==
    \/ ToggleClickAnalysis
    \/ OnCanvasClick
    \/ StartThread
    \/ \E t \in 1..MaxClicks : ThreadBegin(t)
    \/ \E t \in 1..MaxClicks : ThreadFinish(t)
    \/ \E t \in 1..MaxClicks : StatusTimer(t)
    \/ \E t \in 1..MaxClicks : ReloadTimer(t)
    \/ \E t \in 1..MaxClicks : GenerateTimer(t)

(***************************************************************************)
(* WiFiAnalyzer.continuous_monitor (wifianalizer/wifi_analyzer.py).  Time   *)
(* is in whole seconds; one analysis takes one or two of them.             *)
(***************************************************************************)
\* the duration argument: None where --duration is not given
NoDuration == [given |-> FALSE, d |-> 0]
Duration(d) == [given |-> TRUE, d |-> d]

\* "duration and (time.time() - start_time) >= duration": a duration of None
\* or of 0 is not true
LimitReached(duration, elapsed) ==
    duration.given /\ duration.d # 0 /\ elapsed >= duration.d

MonitorIdle ==
    /\ c_pc = "off"
    /\ c_duration = NoDuration
    /\ c_interval = 0
    /\ c_elapsed = 0
    /\ c_results = <<>>
    /\ c_saved = <<>>

\* continuous_monitor(interval, duration) entered: start_time is taken
MonitorInit ==
    /\ c_pc = "analyze"
    /\ c_duration \in {NoDuration} \cup {Duration(d) : d \in 0..3}
    /\ c_interval \in {-1, 0, 1, 2}
    /\ c_elapsed = 0
    /\ c_results = <<>>
    /\ c_saved = <<>>

\* result = self.analyze_once(); self.results.append(result);
\* self.save_results(); iteration += 1
MonitorAnalyze ==
    /\ c_pc = "analyze"
    /\ \E took \in {1, 2} :
          /\ c_elapsed + took <= MaxElapsed
          /\ c_elapsed' = c_elapsed + took
    /\ c_results' = Append(c_results, Len(c_results) + 1)
    /\ c_saved' = c_results'
    /\ c_pc' = "test"
    /\ UNCHANGED <<c_duration, c_interval>>
    /\ UNCHANGED outsideMonitor

\* the duration test: break, or go on to the sleep
MonitorCheck ==
    /\ c_pc = "test"
    /\ c_pc' = IF LimitReached(c_duration, c_elapsed) THEN "end" ELSE "sleep"
    /\ UNCHANGED <<c_duration, c_interval, c_elapsed, c_results, c_saved>>
    /\ UNCHANGED outsideMonitor

\* time.sleep(interval); a negative interval raises ValueError, which the
\* except clause around the loop catches
MonitorSleep ==
    /\ c_pc = "sleep"
    /\ IF c_interval < 0
       THEN c_pc' = "end" /\ UNCHANGED c_elapsed
       ELSE /\ c_elapsed + c_interval <= MaxElapsed
            /\ c_elapsed' = c_elapsed + c_interval
            /\ c_pc' = "analyze"
    /\ UNCHANGED <<c_duration, c_interval, c_results, c_saved>>
    /\ UNCHANGED outsideMonitor

MonitorNext == MonitorAnalyze \/ MonitorCheck \/ MonitorSleep

(***************************************************************************)
(* The duplicate removal applied as a function: to an input, and to its    *)
(* own output.                                                             *)
(***************************************************************************)
\* coordinates around the rounding step: 1 and 2 round down to 0 (2 is a tie,
\* to the even 0), 3 rounds up to 4, 6 is a tie that rounds up to the even 8
DedupPoints == {<<0, 0>>, <<1, 2>>, <<3, 0>>, <<6, 0>>}
DedupValues == {RatOfInt(1), RatOfInt(4)}
DedupSamples == {[x |-> p[1], y |-> p[2], v |-> w] : p \in DedupPoints, w \in DedupValues}

DedupIdle ==
    /\ d_pc = "off"
    /\ d_x = <<>>
    /\ d_y = <<>>
    /\ d_v = <<>>
    /\ d_out = NoArrays
    /\ d_prev = NoArrays

DedupInit ==
    /\ d_pc = "input"
    /\ \E s \in SeqsUpTo(DedupSamples, MaxDedupLen) :
          /\ d_x = XsOf(s)
          /\ d_y = YsOf(s)
          /\ d_v = VsOf(s)
    /\ d_out = NoArrays
    /\ d_prev = NoArrays

\* filtered_values an alias of values: the averages are written into the input
DedupOnce_in_place ==
    /\ d_pc = "input"
    /\ d_out' = _remove_duplicates(d_x, d_y, d_v)
    /\ d_v' = [i \in 1..Len(d_v) |->
                 IF i <= Len(d_out'.v) THEN d_out'.v[i] ELSE d_v[i]]
    /\ d_pc' = "once"
    /\ UNCHANGED <<d_x, d_y, d_prev>>
    /\ UNCHANGED outsideDedup

DedupOnce ==
    /\ d_pc = "input"
    /\ d_out' = _remove_duplicates(d_x, d_y, d_v)
    /\ d_pc' = "once"
    /\ UNCHANGED <<d_x, d_y, d_v, d_prev>>
    /\ UNCHANGED outsideDedup

DedupTwice ==
    /\ d_pc = "once"
    /\ d_prev' = d_out
    /\ d_out' = _remove_duplicates(d_out.x, d_out.y, d_out.v)
    /\ d_pc' = "twice"
    /\ UNCHANGED <<d_x, d_y, d_v>>
    /\ UNCHANGED outsideDedup

DedupNext == DedupOnce \/ DedupTwice


(***************************************************************************)
(* The inverse-distance fallback applied as a function, to a sample set    *)
(* and a lattice of 1, 2 or 3 positions a side over [0, 2] x [0, 2].       *)
(***************************************************************************)
IdwPoints == {<<0, 0>>, <<Unit, 0>>, <<Unit, Unit>>, <<2 * Unit, 2 * Unit>>}
IdwValues == {RatOfInt(1), RatOfInt(3)}
IdwSamples == {[x |-> p[1], y |-> p[2], v |-> w] : p \in IdwPoints, w \in IdwValues}
IdwResolutions == {1, 2, 3}

IdwIdle ==
    /\ i_pc = "off"
    /\ i_x = <<>>
    /\ i_y = <<>>
    /\ i_v = <<>>
    /\ i_gx = <<>>
    /\ i_gy = <<>>
    /\ i_out = <<>>

IdwInit ==
    /\ i_pc = "input"
    /\ \E s \in SeqsUpTo(IdwSamples, MaxIdwLen) :
          /\ i_x = XsOf(s)
          /\ i_y = YsOf(s)
          /\ i_v = VsOf(s)
    /\ \E n \in IdwResolutions :
          /\ i_gx = mgrid_x(0, 2 * Unit, n)
          /\ i_gy = mgrid_y(0, 2 * Unit, n)
    /\ i_out = <<>>

IdwApply ==
    /\ i_pc = "input"
    /\ i_out' = _create_simple_interpolation(i_x, i_y, i_v, i_gx, i_gy)
    /\ i_pc' = "done"
    /\ UNCHANGED <<i_x, i_y, i_v, i_gx, i_gy>>
    /\ UNCHANGED outsideIdw

IdwNext == IdwApply

(***************************************************************************)
(* get_heatmap_data applied as a function, that of the data processor and  *)
(* that of hmh.py, to a heat map type and the loaded data points.          *)
(***************************************************************************)
\* the types of the combobox and one that the table does not hold
MetricTypes == DOMAIN HEATMAP_TYPES \cup {"Signal Quality"}

MetricIdle ==
    /\ m_pc = "off"
    /\ m_type = "RSSI (Signal Strength)"
    /\ m_data = <<>>
    /\ m_out = NoMetric

MetricInit ==
    /\ m_pc = "input"
    /\ m_type \in MetricTypes
    /\ m_data \in DataSets
    /\ m_out = NoMetric

\* DataProcessor.get_heatmap_data(heatmap_type)
CoreGetHeatmapData ==
    /\ m_pc = "input"
    /\ m_out' = get_heatmap_data(m_data, m_type)
    /\ m_pc' = "core"
    /\ UNCHANGED <<m_type, m_data>>
    /\ UNCHANGED outsideMetric

\* hmh.py HeatMapHero.get_heatmap_data(heatmap_type)
LegacyGetHeatmapData ==
    /\ m_pc = "input"
    /\ m_out' = legacy_get_heatmap_data(m_data, m_type)
    /\ m_pc' = "legacy"
    /\ UNCHANGED <<m_type, m_data>>
    /\ UNCHANGED outsideMetric

MetricNext == CoreGetHeatmapData \/ LegacyGetHeatmapData

\* one request for a heat map, from the GUI or from the legacy window
Init ==
    FlowInit /\ DedupIdle /\ IdwIdle /\ MetricIdle /\ GenIdle /\ LoadIdle /\ GuiIdle
    /\ MonitorIdle

Spec == Init /\ [][FlowNext]_vars

InitDedup ==
    DedupInit /\ FlowIdle /\ IdwIdle /\ MetricIdle /\ GenIdle /\ LoadIdle /\ GuiIdle
    /\ MonitorIdle

SpecDedup == InitDedup /\ [][DedupNext]_vars

InitIdw ==
    IdwInit /\ FlowIdle /\ DedupIdle /\ MetricIdle /\ GenIdle /\ LoadIdle /\ GuiIdle
    /\ MonitorIdle

SpecIdw == InitIdw /\ [][IdwNext]_vars

InitMetric ==
    MetricInit /\ FlowIdle /\ DedupIdle /\ IdwIdle /\ GenIdle /\ LoadIdle /\ GuiIdle
    /\ MonitorIdle

SpecMetric == InitMetric /\ [][MetricNext]_vars

InitGen ==
    GenInit /\ FlowIdle /\ DedupIdle /\ IdwIdle /\ MetricIdle /\ LoadIdle /\ GuiIdle
    /\ MonitorIdle

SpecGen == InitGen /\ [][GenNext]_vars

InitLoad ==
    LoadInit /\ FlowIdle /\ DedupIdle /\ IdwIdle /\ MetricIdle /\ GenIdle /\ GuiIdle
    /\ MonitorIdle

SpecLoad == InitLoad /\ [][LoadNext]_vars

InitGui ==
    GuiInit /\ FlowIdle /\ DedupIdle /\ IdwIdle /\ MetricIdle /\ GenIdle /\ LoadIdle
    /\ MonitorIdle

SpecGui == InitGui /\ [][GuiNext]_vars

InitMonitor ==
    MonitorInit /\ FlowIdle /\ DedupIdle /\ IdwIdle /\ MetricIdle /\ GenIdle /\ LoadIdle
    /\ GuiIdle

SpecMonitor == InitMonitor /\ [][MonitorNext]_vars

\* what goes on without the user: on_canvas_click returns from root.update()
\* and starts its thread, a started thread takes its next step, a timer that
\* is due fires
Background ==
    \/ StartThread
    \/ \E t \in 1..MaxClicks :
          \/ ThreadBegin(t)
          \/ ThreadFinish(t)
          \/ StatusTimer(t)
          \/ ReloadTimer(t)
          \/ GenerateTimer(t)

\* The scheduling that the window relies on: the operating system runs every
\* started thread, subprocess.run returns or raises (its timeout is 60
\* seconds), and the Tk main loop keeps handling events and fires every timer
\* that is due; so a step that goes on without the user is not put off for
\* ever.
SpecGuiFair == InitGui /\ [][GuiNext]_vars /\ WF_vars(Background)

(***************************************************************************)
(* Claims about the duplicate removal.                                     *)
(***************************************************************************)
NumKeys(xs, ys) == Cardinality(KeySet(xs, ys, Len(xs)))

\* C8: for N >= 0 samples with K distinct rounded coordinate keys, the
\* duplicate removal does not raise and returns three arrays of length K
\* each (an empty input gives three empty arrays).
C8_DedupCardinality ==
    d_pc = "once" =>
        /\ ~d_out.raised
        /\ Len(d_out.x) = NumKeys(d_x, d_y)
        /\ Len(d_out.y) = NumKeys(d_x, d_y)
        /\ Len(d_out.v) = NumKeys(d_x, d_y)

\* four samples on two keys, a repeat not next to its first occurrence
C8_Witness ==
    /\ d_pc = "once"
    /\ Len(d_x) = 4
    /\ NumKeys(d_x, d_y) = 2
    /\ coord_key(d_x[1], d_y[1]) = coord_key(d_x[3], d_y[3])
    /\ <<d_x[1], d_y[1]>> # <<d_x[3], d_y[3]>>
    /\ Len(d_out.x) = 2

\* C9: the duplicate removal is idempotent: applied to its own output it
\* returns the same coordinates and values in the same order.
C9_DedupIdempotent ==
    d_pc = "twice" => d_out = d_prev

\* the first application merged samples and kept two keys
C9_Witness ==
    /\ d_pc = "twice"
    /\ Len(d_prev.x) = 2
    /\ Len(d_x) = 4
    /\ d_out = d_prev

\* the running pairwise mean of the values that the first n samples give
\* to key k: m_1 = v_1, m_j = (m_(j-1) + v_j) / 2; none when k does not occur
RECURSIVE PairwiseMean(_, _, _, _, _)
PairwiseMean(xs, ys, vs, k, n) ==
    IF n = 0 THEN [some |-> FALSE, m |-> RatOfInt(0)]
    ELSE LET before == PairwiseMean(xs, ys, vs, k, n - 1)
         IN  IF coord_key(xs[n], ys[n]) # k THEN before
             ELSE IF ~before.some THEN [some |-> TRUE, m |-> vs[n]]
             ELSE [some |-> TRUE, m |-> RatHalf(RatAdd(before.m, vs[n]))]

RECURSIVE FirstSeen(_, _, _)
FirstSeen(xs, ys, n) ==
    IF n = 0 THEN <<>>
    ELSE IF \E j \in 1..(n - 1) : coord_key(xs[j], ys[j]) = coord_key(xs[n], ys[n])
         THEN FirstSeen(xs, ys, n - 1)
         ELSE Append(FirstSeen(xs, ys, n - 1), n)

\* C11: the duplicate removal returns the distinct keys in the order of
\* their first occurrence in the input, each with the coordinates of that
\* first occurrence.
C11_FirstSeenOrder ==
    d_pc = "once" =>
        LET first == FirstSeen(d_x, d_y, Len(d_x))
        IN  /\ Len(d_out.x) = Len(first)
            /\ \A i \in 1..Len(first) :
                    /\ d_out.x[i] = d_x[first[i]]
                    /\ d_out.y[i] = d_y[first[i]]

\* the second key's first occurrence lies between two occurrences of the
\* first key, whose later occurrence has other coordinates within the rounding
C11_Witness ==
    /\ d_pc = "once"
    /\ Len(d_x) = 3
    /\ FirstSeen(d_x, d_y, 3) = <<1, 2>>
    /\ <<d_x[3], d_y[3]>> # <<d_x[1], d_y[1]>>
    /\ coord_key(d_x[3], d_y[3]) = coord_key(d_x[1], d_y[1])
    /\ d_out.x = <<d_x[1], d_x[2]>>
    /\ d_out.y = <<d_y[1], d_y[2]>>

(***************************************************************************)
(* Claims about the inverse-distance fallback.                             *)
(***************************************************************************)
\* C6: for a non-empty sample set and a lattice of any resolution >= 1, the
\* inverse-distance fallback gives every lattice cell a defined value: every
\* weight is finite and positive and the sum of the weights is not zero,
\* also where a lattice point coincides with a sample.
C6_IdwTotal ==
    (i_pc = "done" /\ Len(i_v) >= 1) =>
        \A c \in DOMAIN i_gx :
            LET ws == IdwWeights(i_gx[c], i_gy[c], i_x, i_y)
            IN  /\ \A i \in 1..Len(ws) : ~ws[i].inf /\ ws[i].w.n > 0
                /\ SumWeights(ws).n > 0
                /\ i_out[c].k = "num"

\* two samples, one of them on a lattice point of a 3 x 3 lattice
C6_Witness ==
    /\ i_pc = "done"
    /\ Len(i_v) = 2
    /\ Cardinality(DOMAIN i_gx) = 9
    /\ \E c \in DOMAIN i_gx : i_gx[c] = i_x[1] /\ i_gy[c] = i_y[1]
    /\ \A c \in DOMAIN i_gx : i_out[c].k = "num"

(***************************************************************************)
(* Claims about the fallback chain.                                        *)
(***************************************************************************)
\* the grid of a trace event is one the chain takes for a success
Succeeded(e) == e.ev \notin {"skip", "raise"} /\ ~AllNaN(e.grid)

\* the chain has a turn to take: a method to skip, a call of griddata with
\* an outcome the loop handles, or the fallback after the loop
ChainCanStep ==
    /\ method_idx \in 1..(Len(INTERPOLATION_METHODS) + 1)
    /\ (method_idx <= Len(INTERPOLATION_METHODS)
            /\ ~SkipsCubic(values, INTERPOLATION_METHODS[method_idx])) =>
          griddata(x_coords, y_coords, values, GridSize,
                   INTERPOLATION_METHODS[method_idx]) # {}

\* C1: for every non-empty sample set, duplicates and collinear points
\* included, the fallback chain goes on to return a grid to its caller
\* (no turn of it leaves the request stuck), and the grid it returns has at
\* least one defined cell.
C1_ChainReturnsDefinedGrid ==
    /\ (pc = "chain" /\ Len(values) >= 1) => ChainCanStep
    /\ (pc = "render" /\ Len(values) >= 1) =>
            /\ grid_values # NoGrid
            /\ DOMAIN grid_values.nan = Cells(GridSize)
            /\ ~AllNaN(grid_values)

\* collinear points with a repeated coordinate: every method failed and the
\* inverse-distance fallback returned the grid
C1_Witness ==
    /\ pc = "render"
    /\ Len(wifi_data) > Len(values)
    /\ Len(values) = 3
    /\ Collinear(x_coords, y_coords)
    /\ Len(trace) = 3
    /\ grid_values.by = "idw"
    /\ ~AllNaN(grid_values)

\* C2: the sample set handed to the chain, after the metric filter and the
\* duplicate removal, has at least 2 samples.
C2_ChainGetsTwoSamples ==
    pc = "chain" => Len(values) >= 2

\* C3: the methods are tried in the order cubic, linear, nearest, each at
\* most once; a method is tried only after every earlier one failed or was
\* skipped; the grid of the first success is the one returned; the
\* inverse-distance fallback runs only after none of the three succeeded.
C3_MethodOrder ==
    /\ Len(trace) <= 3
    /\ \A i \in 1..Len(trace) : trace[i].method = <<"cubic", "linear", "nearest">>[i]
    /\ \A i \in 1..(Len(trace) - 1) : ~Succeeded(trace[i])
    /\ (pc = "chain" /\ Len(trace) >= 1) => ~Succeeded(trace[Len(trace)])
    /\ (pc = "chain") => method_idx = Len(trace) + 1
    /\ (pc \in {"render", "done"} /\ grid_values # NoGrid) =>
            IF grid_values.by = "idw"
            THEN Len(trace) = 3 /\ \A i \in 1..3 : ~Succeeded(trace[i])
            ELSE /\ Len(trace) >= 1
                 /\ Succeeded(trace[Len(trace)])
                 /\ grid_values.by = trace[Len(trace)].method

\* cubic failed, linear succeeded, and nearest was not tried
C3_Witness ==
    /\ pc = "render"
    /\ Len(trace) = 2
    /\ trace[1].method = "cubic" /\ trace[1].ev = "raise"
    /\ trace[2].method = "linear" /\ Succeeded(trace[2])
    /\ grid_values.by = "linear"

\* C4: with fewer than 4 samples after the duplicate removal the chain never
\* calls the cubic method; with 4 or more, cubic is the first method called.
C4_CubicGate ==
    /\ Len(values) < 4 =>
            \A i \in 1..Len(trace) : trace[i].method = "cubic" => trace[i].ev = "skip"
    /\ (Len(values) >= 4 /\ Len(trace) >= 1) =>
            trace[1].method = "cubic" /\ trace[1].ev # "skip"

\* five data points on three coordinates: cubic was skipped and the chain
\* went on to the next method
C4_Witness ==
    /\ Len(wifi_data) > 3
    /\ Len(values) = 3
    /\ Len(trace) >= 2
    /\ trace[1] = [method |-> "cubic", ev |-> "skip", grid |-> NoGrid]
    /\ trace[2].method = "linear" /\ trace[2].ev # "skip"

\* four samples: cubic was called first
C4_WitnessFour ==
    /\ Len(values) = 4
    /\ Len(trace) >= 1
    /\ trace[1].method = "cubic" /\ trace[1].ev = "allnan"

\* C5: a call of a method that raises, or that returns a grid with no
\* defined cell, leaves the request in the chain, which moves on to the next
\* method and returns nothing yet; a call that returns a grid with at least
\* one defined cell ends the chain, and that grid, unchanged, is the result.
C5_FailureAdvancesSuccessReturns ==
    [][(pc = "chain" /\ Len(trace') = Len(trace) + 1
            /\ trace'[Len(trace')].ev # "skip") =>
        LET e == trace'[Len(trace')]
        IN  IF e.ev = "raise" \/ AllNaN(e.grid)
            THEN /\ pc' = "chain"
                 /\ method_idx' = method_idx + 1
                 /\ grid_values' = NoGrid
                 /\ scene' = scene
            ELSE /\ pc' = "render"
                 /\ grid_values' = e.grid
                 /\ e.grid.by = e.method]_vars

\* a raise and an all-NaN grid were passed over, and a grid with one
\* undefined cell was returned as it came
C5_Witness ==
    /\ pc = "render"
    /\ Len(trace) = 3
    /\ trace[1].ev = "raise"
    /\ trace[2].ev = "allnan"
    /\ trace[3].ev = "some_nan"
    /\ grid_values = trace[3].grid
    /\ \E c \in DOMAIN grid_values.nan : grid_values.nan[c]
    /\ \E c \in DOMAIN grid_values.nan : ~grid_values.nan[c]

\* the samples (0,0,1), (1,1,2), (2,2,3)
ThreeCollinear == SubSeq(DataPool, 1, 3)

\* C7: for the three collinear samples (0,0,1), (1,1,2), (2,2,3) the request
\* goes through: cubic is skipped, linear fails and the chain falls through,
\* and the grid returned comes from nearest or from the inverse-distance
\* fallback and has a defined cell.
C7_CollinearRecovered ==
    (wifi_data = ThreeCollinear /\ app # "none") =>
        /\ pc \in {"chain", "render", "done"}
        /\ pc = "chain" => ChainCanStep
        /\ Len(values) = 3
        /\ Len(trace) >= 1 => trace[1].ev = "skip"
        /\ Len(trace) >= 2 => trace[2].method = "linear" /\ ~Succeeded(trace[2])
        /\ pc \in {"render", "done"} =>
                /\ grid_values.by \in {"nearest", "idw"}
                /\ ~AllNaN(grid_values)
        /\ pc = "done" => scene.kind = "heatmap" /\ scene.grid = grid_values

\* the three samples drawn, after linear raised and nearest returned the grid
C7_Witness ==
    /\ wifi_data = ThreeCollinear
    /\ pc = "done"
    /\ scene.kind = "heatmap"
    /\ Len(trace) = 3
    /\ trace[1].ev = "skip"
    /\ trace[2].ev = "raise"
    /\ grid_values.by = "nearest"
    /\ ~AllNaN(scene.grid)

\* the three samples drawn from the grid of the inverse-distance fallback
C7_WitnessIdw ==
    /\ wifi_data = ThreeCollinear
    /\ pc = "done"
    /\ scene.grid.by = "idw"
    /\ ~AllNaN(scene.grid)

(***************************************************************************)
(* Claims about the request: the sample set, the bounds, the scene.        *)
(***************************************************************************)
\* C12: the samples that generate_heatmap hands to the bounds computation and
\* to the interpolation chain have pairwise distinct coordinate keys: the
\* duplicate removal has run before, on either path.
C12_DistinctKeysReachChain ==
    (pc \in {"chain", "render"} \/ (pc = "done" /\ scene.kind = "heatmap")) =>
        /\ Len(x_coords) = Len(values)
        /\ Len(y_coords) = Len(values)
        /\ \A i, j \in 1..Len(values) :
                i # j => coord_key(x_coords[i], y_coords[i]) # coord_key(x_coords[j], y_coords[j])

\* four data points on two coordinates are in the chain as two samples
C12_Witness ==
    /\ pc = "chain"
    /\ Len(args.x) = 4
    /\ Len(values) = 2
    /\ bounds # <<>>

\* the least and the greatest of the values of a sequence
MinOf(a) == CHOOSE m \in {a[i] : i \in 1..Len(a)} : \A i \in 1..Len(a) : m <= a[i]
MaxOf(a) == CHOOSE m \in {a[i] : i \in 1..Len(a)} : \A i \in 1..Len(a) : m >= a[i]

\* the legacy window has computed bounds from the extent of its samples
DataExtentBounds ==
    app = "legacy" /\ (pc \in {"chain", "render"} \/ (pc = "done" /\ scene.kind = "heatmap"))

\* C13: in data-extent mode the bounds are the extent of the samples widened
\* on each side by 0.2 of the range, the range taken as at least 1:
\* 5 * (min - lo) = 5 * (hi - max) = max(max - min, 1) on both axes; samples
\* spanning [0, 10] x [0, 5] give [-2, 12] x [-1, 6].
C13_DataExtentPadding ==
    DataExtentBounds =>
        LET x_lo == MinOf(x_coords)
            x_hi == MaxOf(x_coords)
            y_lo == MinOf(y_coords)
            y_hi == MaxOf(y_coords)
            x_range == IF x_hi - x_lo >= Unit THEN x_hi - x_lo ELSE Unit
            y_range == IF y_hi - y_lo >= Unit THEN y_hi - y_lo ELSE Unit
        IN  /\ 5 * (x_lo - bounds[1]) = x_range
            /\ 5 * (bounds[2] - x_hi) = x_range
            /\ 5 * (y_lo - bounds[3]) = y_range
            /\ 5 * (bounds[4] - y_hi) = y_range
            /\ (<<x_lo, x_hi, y_lo, y_hi>> = <<0, 10 * Unit, 0, 5 * Unit>>) =>
                    bounds = <<-2 * Unit, 12 * Unit, -Unit, 6 * Unit>>

\* samples at (0, 0), (1, 1) and (10, 5): the bounds are [-2, 12] x [-1, 6]
C13_Witness ==
    /\ DataExtentBounds
    /\ Len(values) = 3
    /\ <<MinOf(x_coords), MaxOf(x_coords)>> = <<0, 10 * Unit>>
    /\ <<MinOf(y_coords), MaxOf(y_coords)>> = <<0, 5 * Unit>>
    /\ bounds = <<-2 * Unit, 12 * Unit, -Unit, 6 * Unit>>

\* C14: for every non-empty sample set, also one whose samples share their x
\* or their y, the bounds the lattice is laid over have x_min < x_max and
\* y_min < y_max, in data-extent mode and in fixed-extent mode.
C14_BoundsNotDegenerate ==
    (pc \in {"chain", "render"} \/ (pc = "done" /\ scene.kind = "heatmap")) =>
        /\ Len(values) >= 1
        /\ Len(bounds) = 4
        /\ bounds[1] < bounds[2]
        /\ bounds[3] < bounds[4]
        /\ \A c \in DOMAIN grid_x : bounds[1] <= grid_x[c] /\ grid_x[c] <= bounds[2]
        /\ \A c \in DOMAIN grid_y : bounds[3] <= grid_y[c] /\ grid_y[c] <= bounds[4]

\* data-extent mode, two samples with the same y: the floor of the range
\* gives the y axis a width
C14_Witness ==
    /\ DataExtentBounds
    /\ Len(values) = 2
    /\ x_coords[1] # x_coords[2]
    /\ y_coords[1] = y_coords[2]
    /\ 5 * (bounds[4] - bounds[3]) = 2 * Unit

\* the rectangle [0, 200] x [0, 100], in ticks
FixedRectangle == <<0, 200 * Unit, 0, 100 * Unit>>

\* C15: in fixed-extent mode (the core generator) the bounds are the
\* rectangle [0, 200] x [0, 100] whatever the coordinates of the samples, for
\* the interpolated scene, the single-point scene and the empty scene.
C15_FixedExtent ==
    app = "core" =>
        /\ pc \in {"chain", "render"} => bounds = FixedRectangle
        /\ pc = "done" =>
                /\ scene.kind \in {"heatmap", "single", "empty"}
                /\ scene.bounds = FixedRectangle
                /\ bounds = FixedRectangle

\* an interpolated scene over the rectangle with a sample outside of it
C15_Witness ==
    /\ app = "core"
    /\ pc = "done"
    /\ scene.kind = "heatmap"
    /\ \E i \in 1..Len(x_coords) : x_coords[i] > 200 * Unit /\ y_coords[i] > 100 * Unit
    /\ \E i \in 1..Len(x_coords) : x_coords[i] < 0
    /\ scene.bounds = FixedRectangle

\* a single-point scene over the rectangle, the point outside of it
C15_WitnessSingle ==
    /\ app = "core"
    /\ pc = "done"
    /\ scene.kind = "single"
    /\ scene.points[1][1] > 200 * Unit
    /\ scene.bounds = FixedRectangle

\* the selected metric is one of the two throughputs
ThroughputSelected == selected_type \in {"TCP Throughput", "UDP Throughput"}

\* C16: when generate_heatmap is given exactly one sample, the chain is not
\* entered and the scene has one marker at the sample's coordinates and one
\* label there, the value with one decimal (as an integer for a throughput);
\* the sample (50, 25, -45) gives one marker at (50, 25) labelled "-45.0".
C16_SinglePoint ==
    (pc # "idle" /\ Len(args.v) = 1) =>
        /\ pc = "done"
        /\ trace = <<>>
        /\ grid_values = NoGrid
        /\ scene.kind = "single"
        /\ scene.grid = NoGrid
        /\ scene.points = <<<<args.x[1], args.y[1], args.v[1]>>>>
        /\ Len(scene.labels) = 1
        /\ scene.labels[1].x = args.x[1] /\ scene.labels[1].y = args.y[1]
        /\ scene.labels[1].text =
                IF ThroughputSelected THEN Format0(args.v[1]) ELSE Format1(args.v[1])
        /\ (<<args.x[1], args.y[1], args.v[1]>> = <<50 * Unit, 25 * Unit, RatOfInt(-45)>>) =>
                scene.labels[1].text = "-45.0"
        /\ (ThroughputSelected /\ args.v[1] = Rat(5, 2)) => scene.labels[1].text = "2"

\* the sample (50, 25, -45) drawn by the core generator
C16_Witness ==
    /\ pc = "done"
    /\ app = "core"
    /\ args.x = <<50 * Unit>> /\ args.y = <<25 * Unit>> /\ args.v = <<RatOfInt(-45)>>
    /\ scene.points = <<<<50 * Unit, 25 * Unit, RatOfInt(-45)>>>>
    /\ Len(scene.labels) = 1
    /\ scene.labels[1].text = "-45.0"

\* one throughput sample left by the filter out of three data points
C16_WitnessThroughput ==
    /\ pc = "done"
    /\ Len(wifi_data) = 3
    /\ Len(args.v) = 1
    /\ scene.labels[1].text = "2"

\* no sample of the selected metric is usable: no data point is loaded, or
\* the metric is a throughput and no data point has a throughput above 0
NoUsableSample ==
    \/ Len(wifi_data) = 0
    \/ /\ selected_type = "TCP Throughput"
       /\ \A i \in 1..Len(wifi_data) : wifi_data[i].tcp_throughput_mbps.n <= 0
    \/ /\ selected_type = "UDP Throughput"
       /\ \A i \in 1..Len(wifi_data) : wifi_data[i].udp_throughput_mbps.n <= 0

\* C17: when no usable sample remains for the selected metric, the request
\* of the GUI ends on the empty path: no duplicate removal, no chain, a scene
\* without grid and points over the fixed rectangle, and a status that
\* reports the empty heat map; nothing is raised, no heat map of zeros drawn.
C17_EmptyPath ==
    (app = "core" /\ NoUsableSample) =>
        /\ pc = "done"
        /\ trace = <<>>
        /\ grid_values = NoGrid
        /\ values = <<>>
        /\ scene.kind = "empty"
        /\ scene.grid = NoGrid
        /\ scene.points = <<>>
        /\ scene.labels = <<>>
        /\ scene.bounds = FixedRectangle
        /\ scene.status.kind =
                IF Len(wifi_data) = 0 THEN "empty_no_points" ELSE "empty_no_metric"

\* two data points, both with a TCP throughput of 0
C17_Witness ==
    /\ app = "core"
    /\ pc = "done"
    /\ Len(wifi_data) = 2
    /\ selected_type = "TCP Throughput"
    /\ \A i \in 1..2 : wifi_data[i].tcp_throughput_mbps = RatOfInt(0)
    /\ scene.kind = "empty"
    /\ scene.status.kind = "empty_no_metric"

\* no data point loaded
C17_WitnessNoData ==
    /\ app = "core"
    /\ pc = "done"
    /\ wifi_data = <<>>
    /\ scene.status.kind = "empty_no_points"

\* the value of the selected metric at a data point
SelectedValue(d) ==
    CASE selected_type = "RSSI (Signal Strength)" -> d.rssi
      [] selected_type = "Average Latency" -> d.avg_latency_ms
      [] selected_type = "TCP Throughput" -> d.tcp_throughput_mbps
      [] selected_type = "UDP Throughput" -> d.udp_throughput_mbps
      [] selected_type = "Packet Loss" -> d.packet_loss_percent
      [] selected_type = "Jitter" -> d.jitter_ms

\* the first n data points that the claim's filter keeps, in their order:
\* under a throughput those with a value other than zero, else all of them
RECURSIVE NonZeroSamples(_)
NonZeroSamples(n) ==
    IF n = 0 THEN <<>>
    ELSE IF ThroughputSelected /\ SelectedValue(wifi_data[n]).n = 0
         THEN NonZeroSamples(n - 1)
         ELSE Append(NonZeroSamples(n - 1),
                     <<wifi_data[n].x, wifi_data[n].y, SelectedValue(wifi_data[n])>>)

\* C18: under a throughput metric the samples passed on to the duplicate
\* removal and the interpolation are exactly the data points whose value is
\* not zero, in their order; under the four other metrics they are all the
\* data points.
C18_FilterDropsZerosOnly ==
    (app # "none" /\ Len(wifi_data) > 0) =>
        LET kept == NonZeroSamples(Len(wifi_data))
        IN  /\ Len(args.v) = Len(kept)
            /\ \A i \in 1..Len(kept) : <<args.x[i], args.y[i], args.v[i]>> = kept[i]

\* C19: in the multi-point scene the points are labelled if and only if the
\* deduplicated samples are at most 10: then every sample has its one label,
\* at its coordinates; with more than 10 samples there is no label.
C19_LabelThreshold ==
    (pc = "done" /\ scene.kind = "heatmap") =>
        IF Len(values) <= 10
        THEN /\ Len(scene.labels) = Len(values)
             /\ \A i \in 1..Len(values) :
                    /\ scene.labels[i].x = x_coords[i]
                    /\ scene.labels[i].y = y_coords[i]
                    /\ scene.labels[i].text =
                            IF ThroughputSelected THEN Format0(values[i]) ELSE Format1(values[i])
        ELSE scene.labels = <<>>

\* eleven data points on ten coordinates: ten labels
C19_Witness ==
    /\ pc = "done"
    /\ scene.kind = "heatmap"
    /\ Len(wifi_data) = 11
    /\ Len(values) = 10
    /\ Len(scene.labels) = 10

\* eleven data points on eleven coordinates: no label
C19_WitnessAbove ==
    /\ pc = "done"
    /\ scene.kind = "heatmap"
    /\ Len(values) = 11
    /\ Len(scene.points) = 11
    /\ scene.labels = <<>>

(***************************************************************************)
(* Claims about the metric table.                                          *)
(***************************************************************************)
\* the display label and the colormap of a heat map type
LabelAndColormap(t) ==
    CASE t = "Average Latency" -> <<"Average Latency (ms)", "RdYlBu_r">>
      [] t = "TCP Throughput" -> <<"TCP Throughput (Mbps)", "viridis">>
      [] t = "UDP Throughput" -> <<"UDP Throughput (Mbps)", "plasma">>
      [] t = "Packet Loss" -> <<"Packet Loss (%)", "Reds">>
      [] t = "Jitter" -> <<"Jitter (ms)", "YlOrRd">>
      [] OTHER -> <<"RSSI (dBm)", "RdYlGn">>

\* C20: get_heatmap_data gives each of the six heat map types its one pair
\* of display label and colormap, whatever the loaded data, and is total: a
\* type that the table does not hold gets the pair of RSSI.
C20_MetricTableTotal ==
    m_pc \in {"core", "legacy"} =>
        /\ ~m_out.raised
        /\ <<m_out.label, m_out.colormap>> = LabelAndColormap(m_type)
        /\ Len(m_out.values) = Len(m_data)

(***************************************************************************)
(* Claims about what the pure functions leave alone and keep within range. *)
(***************************************************************************)
\* C23: the duplicate removal leaves its input unchanged: the step that
\* applies it, to the samples given or to its own earlier result, changes
\* none of the three arrays it was given, and what it returns is held apart
\* from them.
C23_DedupLeavesInput ==
    [][/\ (d_pc = "input" /\ d_pc' = "once") =>
              (d_x' = d_x /\ d_y' = d_y /\ d_v' = d_v)
       /\ (d_pc = "once" /\ d_pc' = "twice") =>
              (d_x' = d_x /\ d_y' = d_y /\ d_v' = d_v /\ d_prev' = d_out)]_vars

\* a removal that merged two samples of different values: the result is
\* shorter than the input and its average is in no position of the input
C23_Witness ==
    /\ d_pc = "once"
    /\ Len(d_out.x) < Len(d_x)
    /\ Len(d_v) = 3
    /\ \E k \in 1..Len(d_out.v) : \A i \in 1..Len(d_v) : d_out.v[k] # d_v[i]

C29_WitnessEqual ==
    /\ i_pc = "done"
    /\ Len(i_v) = 3
    /\ \A i \in 1..Len(i_v) : i_v[i] = RatOfInt(3)
    /\ \E i, j \in 1..Len(i_x) : i_x[i] # i_x[j]
    /\ Cardinality(DOMAIN i_gx) = 9
    /\ \A c \in DOMAIN i_gx : i_out[c] = Num(RatOfInt(3))

(***************************************************************************)
(* Claims about the generator object between calls.                        *)
(***************************************************************************)
\* C21: what generate_heatmap and generate_empty_heatmap give (the samples
\* drawn, the bounds, the course of the chain with the method that gave the
\* grid, the labels) depends on the arguments of the call and on nothing a
\* call before it has left: a call with the arguments (and the answers of
\* griddata) of the first call on the object gives what the first call gave,
\* whatever calls were served between the two, and the object keeps no
\* colorbar from one call to the next.
C21_CallsIndependent ==
    g_pc = "used" =>
        /\ g_self.current_colorbar = "None"
        /\ g_call = g_ref.call => (g_ax = g_ref.ax /\ g_trace = g_ref.trace)

\* the first call, a heat map of three samples, served again after a call
\* with other arguments
C21_Witness ==
    /\ g_pc = "used"
    /\ g_mixed
    /\ g_call = g_ref.call
    /\ g_call.op = "generate_heatmap"
    /\ g_ax.kind = "heatmap"
    /\ Len(g_ax.points) = 3
    /\ Len(g_ax.labels) = 3
    /\ Len(g_trace) >= 2

(***************************************************************************)
(* Claims about the loading of records.                                    *)
(***************************************************************************)
\* the records of the files read by the most recent load that could be parsed
ReadRecords ==
    UNION {{p_read[i].recs[j] : j \in 1..Len(p_read[i].recs)} :
             i \in {k \in 1..Len(p_read) : p_read[k].kind # "invalid"}}

\* the timestamps of the loaded data points
LoadedStamps == {p_wifi_data[i].timestamp : i \in 1..Len(p_wifi_data)}

\* the value of a record for the metric with the key data_key
ValueField(rec, data_key) ==
    CASE data_key = "rssi" -> rec.rssi
      [] data_key = "latency" -> rec.avg_latency_ms
      [] data_key = "tcp_throughput" -> rec.tcp_throughput_mbps
      [] data_key = "udp_throughput" -> rec.udp_throughput_mbps
      [] data_key = "packet_loss" -> rec.packet_loss_percent
      [] data_key = "jitter" -> rec.jitter_ms

\* C22: a record that lacks a coordinate (x or y), or the value of the metric
\* being visualised, is dropped while the files are loaded: whatever heat
\* map type is selected, no loaded data point comes from a record that lacks
\* x, y or the value of that type's metric.
C22_IncompleteRecordsDropped ==
    \A t \in DOMAIN HEATMAP_TYPES : \A rec \in ReadRecords :
        (\/ rec.x.k = "absent"
         \/ rec.y.k = "absent"
         \/ ValueField(rec, HEATMAP_TYPES[t]).k = "absent")
            => rec.timestamp \notin LoadedStamps

\* a JSON value that float() reads as a number
Numeric(v) == v.k = "num" \/ (v.k = "str" /\ v.s \in {"0", "2", "-45", "-60"})

\* a record with its two coordinates and its RSSI, each a number
ValidRecord(rec) ==
    rec.shape = "dict" /\ Numeric(rec.x) /\ Numeric(rec.y) /\ Numeric(rec.rssi)

\* wifi_data holds the valid records of the files read, each once
HoldsReadRecords ==
    /\ LoadedStamps = {rec.timestamp : rec \in {r \in ReadRecords : ValidRecord(r)}}
    /\ \A i, j \in 1..Len(p_wifi_data) :
          p_wifi_data[i].timestamp = p_wifi_data[j].timestamp => i = j

\* C27 as stated: after any sequence of load_json_data, reload_data and
\* clear_data calls, wifi_data holds exactly the valid records of the files
\* read by the most recent load, each record once.
C27_LatestLoadOnly == p_pc = "ready" => HoldsReadRecords

\* C27 amended: after any sequence of load_json_data, reload_data and
\* clear_data calls, wifi_data holds exactly the valid records of the files
\* read by the most recent load, each once, where no clear_data came after
\* that load, and is empty where one did (or nothing was loaded yet); a
\* reload of a folder whose files are those of the load before it leaves the
\* number of data points as it is; a file or a record that cannot be parsed
\* keeps none of the others from being loaded.
C27_LatestLoadUnlessCleared ==
    /\ [](p_pc = "ready" =>
            IF p_json_folder = "None" THEN p_wifi_data = <<>> ELSE HoldsReadRecords)
    /\ [][(p_op' = "reload" /\ p_op \in {"load", "reload"}
              /\ Glob(p_disk, p_json_folder) = p_read)
            => Len(p_wifi_data') = Len(p_wifi_data)]_vars

\* a reload of the folder that was loaded before: the file that is not JSON
\* comes first, and the records after the one whose x is no number are loaded
C27_Witness ==
    /\ p_op = "reload"
    /\ Len(p_read) = 3
    /\ p_read[1].kind = "invalid"
    /\ LoadedStamps = {"r1", "r6"}
    /\ Len(p_wifi_data) = 2

\* the data set is empty after clear_data, though the load before it read a
\* valid record
C27_WitnessCleared ==
    /\ p_op = "clear"
    /\ p_wifi_data = <<>>
    /\ \E rec \in ReadRecords : ValidRecord(rec)

\* the files that the analyzer has written
AnalysisFiles ==
    UNION {{p_disk[fd][i] : i \in {k \in 1..Len(p_disk[fd]) :
                                      p_disk[fd][k].origin = "analyzer"}} :
             fd \in Folders}

\* C28: every record that the analyzer writes when run once with --x and --y
\* is accepted by the DataProcessor as a data point, on macOS, Linux and
\* Windows: it carries coordinates.x, coordinates.y and wifi_info.rssi, and
\* loading its file gives exactly one data point.
C28_AnalyzerRecordsAccepted ==
    \A f \in AnalysisFiles :
        /\ \A i \in 1..Len(f.recs) :
              /\ f.recs[i].x.k # "absent"
              /\ f.recs[i].y.k # "absent"
              /\ f.recs[i].os \in {"darwin", "linux", "windows"}
                    => f.recs[i].rssi.k # "absent"
        /\ f.recs[1].os \in {"darwin", "linux", "windows"} => Len(LoadFile(f)) = 1

(***************************************************************************)
(* Claims about the click analysis.                                        *)
(***************************************************************************)
\* the threads whose run_wifi_analysis has begun and has not returned
InProgress == {t \in 1..Len(u_threads) : u_threads[t].pc = "running"}

\* C24: at most one WiFi analysis (a thread inside run_wifi_analysis, with
\* its subprocess) is in progress at any time, in every interleaving of
\* canvas clicks, event handling and analysis threads.
C24_AtMostOneAnalysis == Cardinality(InProgress) <= 1

\* C25: every analysis that was started comes to its end, and it ends with
\* analysis_running set to False whatever way it left the try block
\* (success, another exit code, the 60 s timeout, a missing script, another
\* exception); analysis_running never stays True for ever, so that a later
\* click with the click analysis enabled passes the guard again.
C25_AnalysisEndsFlagReset ==
    /\ \A t \in 1..MaxClicks :
          (t <= Len(u_threads)) ~> (t <= Len(u_threads) /\ u_threads[t].pc = "done")
    /\ analysis_running ~> ~analysis_running
    /\ [][\A t \in 1..Len(u_threads) :
             (u_threads[t].pc = "running" /\ u_threads'[t].pc = "done")
                => ~analysis_running']_vars

\* an analysis that ended by the timeout, the flag down, and a click accepted
\* after it whose thread has begun
C25_Witness ==
    /\ Len(u_threads) = 2
    /\ u_threads[1].pc = "done"
    /\ u_threads[1].result = "timeout"
    /\ u_threads[2].pc = "running"
    /\ u_threads[2].result = "none"
    /\ analysis_running

\* every way out of the try block has been taken by a finished analysis
C25_WitnessDone ==
    /\ Len(u_threads) = 2
    /\ u_threads[1].pc = "done"
    /\ u_threads[2].pc = "done"
    /\ u_threads[1].result = "error"
    /\ u_threads[2].result = "noscript"
    /\ ~analysis_running

\* C26: after an analysis whose subprocess returned 0 while a JSON folder is
\* selected the data are reloaded, and then, where the reload gave at least
\* one data point, the heat map is generated again, in the order status
\* line, reload, heat map; after an analysis that failed, timed out or
\* raised, no reload and no heat map is requested.
C26_ReloadThenRegenerate ==
    /\ \A t \in 1..MaxClicks :
          /\ (t <= Len(u_threads) /\ u_threads[t].result = "ok" /\ u_folder)
                ~> (t <= Len(u_threads)
                      /\ u_threads[t].reload \in {"loaded", "loaded_empty"})
          /\ (t <= Len(u_threads) /\ u_threads[t].reload = "loaded")
                ~> (t <= Len(u_threads) /\ u_threads[t].generate = "fired")
    /\ [](\A t \in 1..Len(u_threads) :
             /\ u_threads[t].result \in {"noscript", "fail", "timeout", "error"}
                   => (u_threads[t].reload = "none" /\ u_threads[t].generate = "none")
             /\ (u_threads[t].result = "ok" /\ ~u_folder)
                   => (u_threads[t].reload = "none" /\ u_threads[t].generate = "none")
             /\ u_threads[t].reload \in {"loaded", "loaded_empty"}
                   => u_threads[t].status = "fired"
             /\ u_threads[t].reload = "loaded_empty" => u_threads[t].generate = "none"
             /\ u_threads[t].generate # "none" => u_threads[t].reload = "loaded")

\* a successful analysis with a folder selected, reloaded with data and the
\* heat map generated again, next to one that failed
C26_Witness ==
    /\ u_folder
    /\ Len(u_threads) = 2
    /\ u_threads[1].result = "ok"
    /\ u_threads[1].status = "fired"
    /\ u_threads[1].reload = "loaded"
    /\ u_threads[1].generate = "fired"
    /\ u_threads[2].result = "fail"
    /\ u_threads[2].status = "fired"

\* a successful analysis whose reload found no data point
C26_WitnessEmpty ==
    /\ u_folder
    /\ Len(u_threads) >= 1
    /\ u_threads[1].result = "ok"
    /\ u_threads[1].pc = "done"
    /\ u_threads[1].reload = "loaded_empty"
    /\ u_threads[1].generate = "none"

(***************************************************************************)
(* Claims about the continuous monitoring.                                 *)
(***************************************************************************)
\* C30: continuous_monitor with a duration d >= 0 given ends after the first
\* iteration at whose end the elapsed time is at least d: at the duration
\* test of an iteration, with its one record appended and saved, the loop is
\* left where the elapsed time has reached d.
C30_EndsAtDuration ==
    [][(c_pc = "test" /\ c_duration.given /\ c_elapsed >= c_duration.d)
          => (c_pc' = "end" /\ Len(c_results) >= 1 /\ c_saved = c_results)]_vars

====
